---------------------------- MODULE Spec2Model ----------------------------
(***************************************************************************)
(* Verification model of the pseudocode complexity analyser:               *)
(*   - the lexer's scanning loop          (backend/src/parsing/lexer.py)   *)
(*   - the analysis pipeline's retry      (backend/src/analyzer/pipeline.py)*)
(*   - the structural complexity engine   (analysis/complexity_engine.py)  *)
(*   - the recurrence solver              (analysis/recurrence_solver.py)  *)
(*   - the methods of ComplexityMeasure   (analysis/complexity_engine.py)  *)
(*   - the recursive-descent parser       (backend/src/parsing/parser.py)  *)
(* Each component has its own specification (LexSpec, PipeSpec, EngSpec,   *)
(* SolveSpec, MeasSpec, ParseSpec); the variables of the other components  *)
(* stay idle.                                                              *)
(***************************************************************************)
EXTENDS Integers, Sequences, FiniteSets, TLC

VARIABLES
    \* Lexer.iter_tokens
    source,       \* Lexer._source, a sequence of characters
    idx,          \* scan index (0-based, as in the code)
    line,         \* current line
    column,       \* current column
    tokens,       \* tokens yielded so far
    lexpc,        \* "scan" | "done" | "error" (LexerError raised)
    iterations,   \* number of iterations of the scanning loop executed
    \* AnalysisPipeline.run
    config,           \* PipelineConfig.enable_grammar_correction, corrector present
    parse_outcome,    \* what Parser(source).parse() does for each source text
    run_source,       \* the argument of run
    corrected_source, \* local corrected_source
    pipepc,           \* position in run
    parser_calls,     \* number of Parser(...).parse() calls made
    corrector_calls,  \* number of correct_grammar calls made
    first_error,      \* the exception bound to e by the outer except clause
    confidence,       \* correction_result["confidence"], in tenths
    correction_info,  \* local correction_info is set
    raised,           \* the exception that left run
    \* RecurrenceSolver.solve
    relation,     \* RecurrenceRelation: identifier and recurrence text
    solvepc,      \* "master" | "substitution" | "fallback" | "done" | "raised"
    solution,     \* the value solve returns (or the no-match result)
    \* ComplexityEngine.analyze
    program,            \* the Program under analysis
    engpc,              \* "match" | "structure" | "detect" | "recursion" | "report" | "done"
    has_recursion,
    program_case,       \* CaseComplexity
    recursive_pattern,
    result,             \* ComplexityResult: best_case, worst_case, average_case
    \* one call of a ComplexityMeasure method
    receiver,     \* the measure the method is called on
    argument,     \* the other measure (dominates, max_with, min_with)
    measpc,       \* "call" | "returned"
    returned,     \* the method called and the value it returned
    \* Parser(source).parse()
    unit,           \* the source handed to Parser: its layout and its lines
    _tokens,        \* Parser._tokens
    parserpc,       \* "new" | "constructed" | "left"
    parser_raised,  \* the exception that left __init__ or parse
    parser_locals,  \* the local variables of parse at its return statement
    \* extract_generic_recurrence(ast_root)
    ast_root,        \* the Program the recurrence is extracted from
    extpc,           \* "select" | "walk" | "structure" | "adjust" | "done"
    func_name,       \* the name recursive calls are recognised by
    visitor,         \* the GenericASTVisitor walking the main procedure
    stack,           \* the visits the walk still has to make
    recurrence_str,  \* relation.recurrence
    structural,      \* the ComplexityResult returned with the relation
    \* RecursionTreeBuilder
    tree_relation,   \* relation.recurrence as build hands it to _parse_recurrence
    treepc,          \* "parse" | "none" | "tree" | "levels" | "height" | "built"
    tree_params,     \* params: a, b, fn
    root,            \* the RecursionTreeNode of T(n)
    levels,          \* the list _build_levels returns
    height           \* the value of _calculate_tree_height

lexvars == <<source, idx, line, column, tokens, lexpc, iterations>>

pipevars == <<config, parse_outcome, run_source, corrected_source, pipepc,
              parser_calls, corrector_calls, first_error, confidence,
              correction_info, raised>>

solvevars == <<relation, solvepc, solution>>

engvars == <<program, engpc, has_recursion, program_case, recursive_pattern, result>>

measvars == <<receiver, argument, measpc, returned>>

parsevars == <<unit, _tokens, parserpc, parser_raised, parser_locals>>

extvars == <<ast_root, extpc, func_name, visitor, stack, recurrence_str, structural>>

treevars == <<tree_relation, treepc, tree_params, root, levels, height>>

vars == <<lexvars, pipevars, solvevars, engvars, measvars, parsevars, extvars, treevars>>

-----------------------------------------------------------------------------
(* Bounds *)
MaxSourceLen == 3

MaxIterations == MaxSourceLen + 2

\* Number of distinct source texts the pipeline is run on / corrected to.
NumSources == 2

\* Recurrence texts: coefficient a in 0..MaxCoefficient, divisor b in
\* 0..MaxDivisor, f(n) = n^k or n^(k + 1/2) with k in 0..MaxExponent.
MaxCoefficient == 9
MaxDivisor == 4
MaxExponent == 3

\* Programs: a statement is wrapped in up to MaxLoopDepth for-loops.
MaxLoopDepth == 2
\* ComplexityMeasure: the fields of the measures a method is called with
MaxDegree == 3
MaxLogPower == 2
MaxBase == 3
\* Parser: the number of statement lines of a source
MaxStatements == 2
MaxBranching == 3
MaxTreeDivisor == 3
MaxTreeDegree == 2

-----------------------------------------------------------------------------
(***************************************************************************)
(* AnalysisPipeline.run                                                    *)
(***************************************************************************)

PipeSources == 1..NumSources

\* Parser(source).parse(): returns a Program or raises.  "OtherError" is an
\* exception that is neither ParserError nor LexerError.
ParseOutcomes == {"ok", "ParserError", "LexerError", "OtherError"}

\* Confidence values in tenths: 5 stands for 0.5.
Confidences == 0..10

NoError == [type |-> "none", origin |-> "none"]

Exc(type, origin) == [type |-> type, origin |-> origin]

ConfidenceAcceptedAtHalf(c) == c >= 5

\* if correction_result["confidence"] > 0.5
ConfidenceAccepted(c) == c > 5

\* self._config.enable_grammar_correction and self._grammar_corrector is not None
CorrectionAvailable == config.enable_grammar_correction /\ config.has_corrector

PipeInit ==
    /\ config \in [enable_grammar_correction : BOOLEAN, has_corrector : BOOLEAN]
    /\ parse_outcome \in [PipeSources -> ParseOutcomes]
    /\ run_source \in PipeSources
    /\ corrected_source = run_source
    /\ pipepc = "parse"
    /\ parser_calls = 0
    /\ corrector_calls = 0
    /\ first_error = NoError
    /\ confidence = -1
    /\ correction_info = FALSE
    /\ raised = NoError

PipeIdle ==
    /\ config = [enable_grammar_correction |-> FALSE, has_corrector |-> FALSE]
    /\ parse_outcome = [s \in PipeSources |-> "ok"]
    /\ run_source = 1
    /\ corrected_source = 1
    /\ pipepc = "idle"
    /\ parser_calls = 0
    /\ corrector_calls = 0
    /\ first_error = NoError
    /\ confidence = -1
    /\ correction_info = FALSE
    /\ raised = NoError

PipeFixed ==
    UNCHANGED <<config, parse_outcome, run_source>> /\ UNCHANGED <<lexvars, solvevars, engvars, measvars, parsevars, extvars, treevars>>

\* try: program = Parser(corrected_source).parse()   -- no exception
ParseFirstOk ==
    /\ pipepc = "parse"
    /\ parse_outcome[corrected_source] = "ok"
    /\ parser_calls' = parser_calls + 1
    /\ pipepc' = "analyse"
    /\ PipeFixed
    /\ UNCHANGED <<corrected_source, corrector_calls, first_error, confidence,
                   correction_info, raised>>

\* except (ParserError, LexerError) as e
ParseFirstCaught ==
    /\ pipepc = "parse"
    /\ parse_outcome[corrected_source] \in {"ParserError", "LexerError"}
    /\ parser_calls' = parser_calls + 1
    /\ first_error' = Exc(parse_outcome[corrected_source], "parse1")
    /\ pipepc' = "handler"
    /\ PipeFixed
    /\ UNCHANGED <<corrected_source, corrector_calls, confidence,
                   correction_info, raised>>

\* any other exception of the first parse is not caught and leaves run
ParseFirstUncaught ==
    /\ pipepc = "parse"
    /\ parse_outcome[corrected_source] = "OtherError"
    /\ parser_calls' = parser_calls + 1
    /\ raised' = Exc("OtherError", "parse1")
    /\ pipepc' = "raised"
    /\ PipeFixed
    /\ UNCHANGED <<corrected_source, corrector_calls, first_error, confidence,
                   correction_info>>

\* else: raise   (correction disabled or no corrector)
RaiseWithoutCorrection ==
    /\ pipepc = "handler"
    /\ ~CorrectionAvailable
    /\ raised' = first_error
    /\ pipepc' = "raised"
    /\ PipeFixed
    /\ UNCHANGED <<corrected_source, parser_calls, corrector_calls, first_error,
                   confidence, correction_info>>

\* correction_result = self._grammar_corrector.correct_grammar(...) returns
CorrectorReturns ==
    /\ pipepc = "handler"
    /\ CorrectionAvailable
    /\ corrector_calls' = corrector_calls + 1
    /\ \E c \in Confidences, code \in PipeSources :
          /\ confidence' = c
          /\ IF ConfidenceAccepted(c)
             THEN /\ corrected_source' = code
                  /\ correction_info' = TRUE
                  /\ pipepc' = "reparse"
                  /\ raised' = raised
             ELSE \* raise e, caught by except Exception, which raises e again
                  /\ corrected_source' = corrected_source
                  /\ correction_info' = correction_info
                  /\ pipepc' = "raised"
                  /\ raised' = first_error
    /\ PipeFixed
    /\ UNCHANGED <<parser_calls, first_error>>

\* correct_grammar raises (or the result lacks a key): except Exception: raise e
CorrectorRaises ==
    /\ pipepc = "handler"
    /\ CorrectionAvailable
    /\ corrector_calls' = corrector_calls + 1
    /\ raised' = first_error
    /\ pipepc' = "raised"
    /\ PipeFixed
    /\ UNCHANGED <<corrected_source, parser_calls, first_error, confidence,
                   correction_info>>

\* parser = Parser(corrected_source); program = parser.parse()  -- no exception
ParseSecondOk ==
    /\ pipepc = "reparse"
    /\ parse_outcome[corrected_source] = "ok"
    /\ parser_calls' = parser_calls + 1
    /\ pipepc' = "analyse"
    /\ PipeFixed
    /\ UNCHANGED <<corrected_source, corrector_calls, first_error, confidence,
                   correction_info, raised>>

\* the second parse raises: except Exception as correction_error: raise e
ParseSecondRaises ==
    /\ pipepc = "reparse"
    /\ parse_outcome[corrected_source] # "ok"
    /\ parser_calls' = parser_calls + 1
    /\ raised' = first_error
    /\ pipepc' = "raised"
    /\ PipeFixed
    /\ UNCHANGED <<corrected_source, corrector_calls, first_error, confidence,
                   correction_info>>

\* validate, extract_generic_recurrence, reporter.build, return report
AnalyseAndReturn ==
    /\ pipepc = "analyse"
    /\ pipepc' = "returned"
    /\ PipeFixed
    /\ UNCHANGED <<corrected_source, parser_calls, corrector_calls, first_error,
                   confidence, correction_info, raised>>

PipeNext ==
    \/ ParseFirstOk
    \/ ParseFirstCaught
    \/ ParseFirstUncaught
    \/ RaiseWithoutCorrection
    \/ CorrectorReturns
    \/ CorrectorRaises
    \/ ParseSecondOk
    \/ ParseSecondRaises
    \/ AnalyseAndReturn

(***************************************************************************)
(* Lexer                                                                   *)
(***************************************************************************)

\* Characters that have no ASCII spelling are named by their code point.
INFINITY    == "U+221E"   \* the infinity sign
COMMENTMARK == "U+25BA"   \* the comment marker
LEQ         == "U+2264"
GEQ         == "U+2265"
NEQ         == "U+2260"
ARROW       == "U+1F868"  \* canonical assignment arrow
UPDOWN      == "U+21A8"   \* arrow variant normalised to ARROW
LEFTARROW   == "U+2190"   \* arrow the lexer has no case for

Letters == {"t", "o", "T"}
Digits  == {"1"}

\* The characters sources are drawn from.
Alphabet ==
    Letters \cup Digits \cup
    {" ", "\t", "\r", "\n", "\"", "_", ".", "<", ">", "=", ":", "(", ")", "@", "-",
     INFINITY, COMMENTMARK, LEQ, GEQ, NEQ, ARROW, UPDOWN, LEFTARROW}

RECURSIVE SeqsUpTo(_, _)
SeqsUpTo(S, n) ==
    IF n = 0 THEN {<<>>}
    ELSE LET shorter == SeqsUpTo(S, n - 1)
         IN  shorter \cup {Append(s, c) : s \in {t \in shorter : Len(t) = n - 1}, c \in S}

Sources == SeqsUpTo(Alphabet, MaxSourceLen)

RESERVED_WORDS ==
    {"algoritmo", "procedimiento", "begin", "end", "for", "to", "while",
     "repeat", "until", "if", "then", "else", "do", "and", "or", "not",
     "call", "length", "null", "class", "mod", "div", "return", "print",
     "t", "f", "new", "array"}

LowerChars ==
    <<"a", "b", "c", "d", "e", "f", "g", "h", "i", "j", "k", "l", "m", "n", "o",
      "p", "q", "r", "s", "t", "u", "v", "w", "x", "y", "z">>

UpperChars ==
    <<"A", "B", "C", "D", "E", "F", "G", "H", "I", "J", "K", "L", "M", "N", "O",
      "P", "Q", "R", "S", "T", "U", "V", "W", "X", "Y", "Z">>

DigitChars == <<"0", "1", "2", "3", "4", "5", "6", "7", "8", "9">>

DecimalDigits == {DigitChars[i] : i \in 1..10}

\* every character a text of the model is made of
Characters ==
    Alphabet \cup DecimalDigits \cup {LowerChars[k] : k \in 1..26} \cup
    {UpperChars[k] : k \in 1..26} \cup {"+", "*", "/", "[", "]", ",", "{", "}", "^"}

isalpha(c) == \E k \in 1..26 : c = LowerChars[k] \/ c = UpperChars[k]
isdigit(c) == c \in DecimalDigits
isalnum(c) == isalpha(c) \/ isdigit(c)

lower(c) ==
    IF \E k \in 1..26 : c = UpperChars[k]
    THEN LowerChars[CHOOSE k \in 1..26 : c = UpperChars[k]]
    ELSE c

\* str.lower() of a slice, as one string
RECURSIVE LowerJoin(_)
LowerJoin(s) == IF s = <<>> THEN "" ELSE lower(Head(s)) \o LowerJoin(Tail(s))

RECURSIVE Join(_)
Join(s) == IF s = <<>> THEN "" ELSE Head(s) \o Join(Tail(s))

\* self._source[a:b] with 0-based a, b
Slice(src, a, b) == SubSeq(src, a + 1, b)

Token(kind, lexeme, ln, col) ==
    [kind |-> kind, lexeme |-> lexeme, line |-> ln, column |-> col]

_peek(src, i) == IF i < Len(src) THEN src[i + 1] ELSE ""

\* First index >= i at which the character fails `keep` (or the length).
\* K is the set of characters the loop keeps consuming.
RECURSIVE ScanWhile(_, _, _)
ScanWhile(src, i, K) ==
    IF i < Len(src) /\ src[i + 1] \in K THEN ScanWhile(src, i + 1, K) ELSE i

IsBlank      == {" ", "\t"}
IsIdentChar  == {c \in Characters : isalnum(c) \/ c = "_"}
NotNewline   == Characters \ {"\n"}
NotQuote     == Characters \ {"\""}

\* _consume_whitespace: the index after the run of blanks starting at i
_consume_whitespace(src, i) == ScanWhile(src, i, IsBlank)

_consume_identifier(src, i) == ScanWhile(src, i, IsIdentChar)
_consume_number(src, i)     == ScanWhile(src, i, DecimalDigits)
_consume_comment(src, i)    == ScanWhile(src, i, NotNewline)

\* _consume_multi_symbol: <<lexeme, advance>> or <<>> for None
_consume_multi_symbol(src, i) ==
    LET current   == src[i + 1]
        next_char == _peek(src, i + 1)
        lexeme ==
            IF      current = "<" /\ next_char = "=" THEN "<="
            ELSE IF current = ">" /\ next_char = "=" THEN ">="
            ELSE IF current = "<" /\ next_char = ">" THEN "<>"
            ELSE IF current = ":" /\ next_char = "=" THEN ":="
            ELSE IF current = LEQ    THEN LEQ
            ELSE IF current = GEQ    THEN GEQ
            ELSE IF current = NEQ    THEN "<>"
            ELSE IF current = ARROW  THEN ARROW
            ELSE IF current = UPDOWN THEN ARROW
            ELSE IF current = "("    THEN "("
            ELSE IF current = ")"    THEN ")"
            ELSE "None"
        \* len(lexeme) == 2 and current in {"<", ">", ":"}
        advance == IF lexeme \in {"<=", ">=", "<>", ":="} /\ current \in {"<", ">", ":"}
                   THEN 2 ELSE 1
    IN  IF lexeme = "None" THEN <<>> ELSE <<lexeme, advance>>

\* Number of newlines in src[a:b]
RECURSIVE CountNewlines(_, _, _)
CountNewlines(src, a, b) ==
    IF a >= b THEN 0
    ELSE (IF src[a + 1] = "\n" THEN 1 ELSE 0) + CountNewlines(src, a + 1, b)

\* Column reached by _consume_string's loop over src[a:b], starting at col
RECURSIVE StringColumn(_, _, _, _)
StringColumn(src, a, b, col) ==
    IF a >= b THEN col
    ELSE StringColumn(src, a + 1, b, IF src[a + 1] = "\n" THEN 1 ELSE col + 1)

Current == source[idx + 1]

Scanning == lexpc = "scan" /\ idx < Len(source) /\ iterations < MaxIterations

Iterate == iterations' = iterations + 1 /\ UNCHANGED <<pipevars, solvevars, engvars, measvars, parsevars, extvars, treevars>>

\* if current in " \t\r": idx, column = self._consume_whitespace(idx, column)
LexWhitespace ==
    /\ Scanning
    /\ Current \in {" ", "\t", "\r"}
    /\ LET j == _consume_whitespace(source, idx)
       IN  /\ idx' = j
           /\ column' = column + (j - idx)
    /\ Iterate
    /\ UNCHANGED <<source, line, tokens, lexpc>>

LexInfinity ==
    /\ Scanning
    /\ Current = INFINITY
    /\ tokens' = Append(tokens, Token("IDENTIFIER", "infinito", line, column))
    /\ idx' = idx + 1
    /\ column' = column + 1
    /\ Iterate
    /\ UNCHANGED <<source, line, lexpc>>

LexNewline ==
    /\ Scanning
    /\ Current = "\n"
    /\ line' = line + 1
    /\ column' = 1
    /\ idx' = idx + 1
    /\ Iterate
    /\ UNCHANGED <<source, tokens, lexpc>>

LexComment ==
    /\ Scanning
    /\ Current = COMMENTMARK
    /\ LET j == _consume_comment(source, idx)
       IN  /\ idx' = j
           /\ column' = column + (j - idx)
    /\ Iterate
    /\ UNCHANGED <<source, line, tokens, lexpc>>

LexRange ==
    /\ Scanning
    /\ Current = "." /\ _peek(source, idx + 1) = "."
    /\ tokens' = Append(tokens, Token("SYMBOL", "..", line, column))
    /\ idx' = idx + 2
    /\ column' = column + 2
    /\ Iterate
    /\ UNCHANGED <<source, line, lexpc>>

LexIdentifier ==
    /\ Scanning
    /\ isalpha(Current)
    /\ LET j      == _consume_identifier(source, idx)
           lexeme == LowerJoin(Slice(source, idx, j))
           kind   == IF lexeme \in RESERVED_WORDS THEN "KEYWORD" ELSE "IDENTIFIER"
       IN  /\ tokens' = Append(tokens, Token(kind, lexeme, line, column))
           /\ idx' = j
           /\ column' = column + (j - idx)
    /\ Iterate
    /\ UNCHANGED <<source, line, lexpc>>

LexNumber ==
    /\ Scanning
    /\ isdigit(Current)
    /\ LET j == _consume_number(source, idx)
       IN  /\ tokens' = Append(tokens, Token("NUMBER", Join(Slice(source, idx, j)), line, column))
           /\ idx' = j
           /\ column' = column + (j - idx)
    /\ Iterate
    /\ UNCHANGED <<source, line, lexpc>>

\* _consume_string, closing quote found
LexString ==
    /\ Scanning
    /\ Current = "\""
    /\ LET j == ScanWhile(source, idx + 1, NotQuote)
           ln == line + CountNewlines(source, idx + 1, j)
       IN  /\ j < Len(source)
           /\ tokens' = Append(tokens, Token("STRING", Join(Slice(source, idx + 1, j)), ln, column))
           /\ idx' = j + 1
           /\ column' = StringColumn(source, idx + 1, j, column + 1) + 1
           /\ line' = ln
    /\ Iterate
    /\ UNCHANGED <<source, lexpc>>

\* _consume_string, end of input reached: raise LexerError
LexUnterminatedString ==
    /\ Scanning
    /\ Current = "\""
    /\ ScanWhile(source, idx + 1, NotQuote) >= Len(source)
    /\ lexpc' = "error"
    /\ Iterate
    /\ UNCHANGED <<source, idx, line, column, tokens>>

FallsToSymbols ==
    /\ Current \notin {" ", "\t", "\r", INFINITY, "\n", COMMENTMARK, "\""}
    /\ ~(Current = "." /\ _peek(source, idx + 1) = ".")
    /\ ~isalpha(Current)
    /\ ~isdigit(Current)

LexMultiSymbol ==
    /\ Scanning
    /\ FallsToSymbols
    /\ LET ms == _consume_multi_symbol(source, idx)
       IN  /\ ms # <<>>
           /\ tokens' = Append(tokens, Token("SYMBOL", ms[1], line, column))
           /\ idx' = idx + ms[2]
           /\ column' = column + ms[2]
    /\ Iterate
    /\ UNCHANGED <<source, line, lexpc>>

LexSymbol ==
    /\ Scanning
    /\ FallsToSymbols
    /\ _consume_multi_symbol(source, idx) = <<>>
    /\ tokens' = Append(tokens, Token("SYMBOL", Current, line, column))
    /\ idx' = idx + 1
    /\ column' = column + 1
    /\ Iterate
    /\ UNCHANGED <<source, line, lexpc>>

\* the loop condition fails: yield Token(TokenKind.EOF, "", line, column)
LexEof ==
    /\ lexpc = "scan"
    /\ idx >= Len(source)
    /\ tokens' = Append(tokens, Token("EOF", "", line, column))
    /\ lexpc' = "done"
    /\ UNCHANGED <<source, idx, line, column, iterations>>
    /\ UNCHANGED <<pipevars, solvevars, engvars, measvars, parsevars, extvars, treevars>>

LexInit ==
    /\ source \in Sources
    /\ idx = 0
    /\ line = 1
    /\ column = 1
    /\ tokens = <<>>
    /\ lexpc = "scan"
    /\ iterations = 0

LexNext ==
    \/ LexWhitespace
    \/ LexInfinity
    \/ LexNewline
    \/ LexComment
    \/ LexRange
    \/ LexIdentifier
    \/ LexNumber
    \/ LexString
    \/ LexUnterminatedString
    \/ LexMultiSymbol
    \/ LexSymbol
    \/ LexEof

LexIdle ==
    /\ source = <<>>
    /\ idx = 0
    /\ line = 1
    /\ column = 1
    /\ tokens = <<>>
    /\ lexpc = "idle"
    /\ iterations = 0


(***************************************************************************)
(* Recurrence solver                                                       *)
(***************************************************************************)

\* Texts are sequences of one-character strings.
DigitValue(c) == (CHOOSE i \in 1..10 : DigitChars[i] = c) - 1

\* str(n) for a natural number
RECURSIVE ToDigits(_)
ToDigits(n) ==
    IF n < 10 THEN <<DigitChars[n + 1]>>
    ELSE ToDigits(n \div 10) \o <<DigitChars[(n % 10) + 1]>>

\* value of a run of decimal digits
RECURSIVE DigitsValue(_)
DigitsValue(t) ==
    IF t = <<>> THEN 0
    ELSE 10 * DigitsValue(SubSeq(t, 1, Len(t) - 1)) + DigitValue(t[Len(t)])

RECURSIVE GCD(_, _)
GCD(m, n) == IF n = 0 THEN m ELSE GCD(n, m % n)

Min(S) == CHOOSE x \in S : \A y \in S : x <= y

ValueError == [tag |-> "ValueError"]
None == [tag |-> "None"]

Fraction(num, den) ==
    [tag |-> "ok", num |-> num \div GCD(num, den), den |-> den \div GCD(num, den)]

\* the float whose digits (dot removed) are digs, with fracLen of them
\* after the dot
FloatOf(digs, fracLen) == Fraction(DigitsValue(digs), 10 ^ fracLen)

FloatText(t, dots) ==
    IF Cardinality(dots) > 1 \/ Len(t) = Cardinality(dots) THEN ValueError
    ELSE FloatOf(SelectSeq(t, LAMBDA c : c # "."),
                 IF dots = {} THEN 0 ELSE Len(t) - Min(dots))

\* float(t) for a text of digits and dots: Python accepts it when it holds at
\* least one digit and at most one dot; the value is kept as a reduced
\* fraction num/den.
float(t) == FloatText(t, {k \in 1..Len(t) : t[k] = "."})

\* digits of the fractional part r/den, den dividing a power of ten
RECURSIVE FracDigits(_, _)
FracDigits(r, den) ==
    IF r = 0 THEN <<>>
    ELSE <<DigitChars[((r * 10) \div den) + 1]>> \o FracDigits((r * 10) % den, den)

\* repr of the float num/den, e.g. 2.0, 0.5
FloatRepr(d) ==
    ToDigits(d.num \div d.den) \o <<".">> \o
    (IF d.num % d.den = 0 THEN <<"0">> ELSE FracDigits(d.num % d.den, d.den))

\* recurrence.replace(" ", "")
RemoveSpaces(t) == SelectSeq(t, LAMBDA c : c # " ")

\* `lit in t`
Contains(t, lit) ==
    \E i \in 0..(Len(t) - Len(lit)) : Slice(t, i, i + Len(lit)) = lit

\* t.endswith(lit)
EndsWith(t, lit) ==
    Len(t) >= Len(lit) /\ Slice(t, Len(t) - Len(lit), Len(t)) = lit

LowerSeq(t) == [k \in 1..Len(t) |-> lower(t[k])]

\* a literal of the pattern matched at offset i under re.IGNORECASE
MatchLiteral(t, i, lit) ==
    /\ i + Len(lit) <= Len(t)
    /\ \A k \in 1..Len(lit) : lower(t[i + k]) = lower(lit[k])

\* The pattern T\(n\)=(\d*\*?)?T\(n/(\d+)\)\+(.*) tried at offset p:
\* <<a_str, b_str, fn_str>>, or <<>> when it does not match there.  The
\* greedy digit runs never need backtracking: a shorter run is followed by a
\* digit, which neither "T", "*" nor ")" matches.  a2 is the offset after
\* group 1, b1 the offset after group 2.
MasterGroups(t, p, a2, b1) ==
    IF /\ MatchLiteral(t, p, <<"T", "(", "n", ")", "=">>)
       /\ MatchLiteral(t, a2, <<"T", "(", "n", "/">>)
       /\ b1 > a2 + 4
       /\ MatchLiteral(t, b1, <<")", "+">>)
    THEN <<Slice(t, p + 5, a2), Slice(t, a2 + 4, b1), Slice(t, b1 + 2, Len(t))>>
    ELSE <<>>

MasterAfterStar(t, p, a2) ==
    MasterGroups(t, p, a2, ScanWhile(t, a2 + 4, DecimalDigits))

MasterAfterDigits(t, p, a1) ==
    MasterAfterStar(t, p, IF _peek(t, a1) = "*" THEN a1 + 1 ELSE a1)

MasterPatternAt(t, p) ==
    MasterAfterDigits(t, p, ScanWhile(t, p + 5, DecimalDigits))

LeftmostMaster(t, P) == IF P = {} THEN <<>> ELSE MasterPatternAt(t, Min(P))

\* re.search: the match at the leftmost offset
MasterSearch(t) ==
    LeftmostMaster(t, {p \in 0..Len(t) : MasterPatternAt(t, p) # <<>>})

ExponentRun(fn, p) == ScanWhile(fn, p + 2, DecimalDigits \cup {"."})

LeftmostExponent(fn, P) ==
    IF P = {} THEN <<>> ELSE Slice(fn, Min(P) + 2, ExponentRun(fn, Min(P)))

\* re.search(r"n\^([\d\.]+)", fn_str): the captured text, <<>> without match
ExponentSearch(fn) ==
    LeftmostExponent(fn, {p \in 0..(Len(fn) - 2) :
                             /\ Slice(fn, p, p + 2) = <<"n", "^">>
                             /\ ExponentRun(fn, p) > p + 2})

One == [tag |-> "ok", num |-> 1, den |-> 1]
Zero == [tag |-> "ok", num |-> 0, den |-> 1]

\* a: 1.0 without coefficient text, else float(a_str.replace("*", ""))
MasterCoefficient(a_str) ==
    IF a_str = <<>> THEN One ELSE float(SelectSeq(a_str, LAMBDA c : c # "*"))

ExponentOf(captured) == IF captured # <<>> THEN float(captured) ELSE One

\* d: the degree of f(n)
MasterDegree(fn_str) ==
    IF Contains(fn_str, <<"n", "^">>) THEN ExponentOf(ExponentSearch(fn_str))
    ELSE IF Contains(fn_str, <<"n">>) THEN One
    ELSE Zero

MasterParams(a, b, d) ==
    IF a.tag = "ValueError" THEN ValueError
    ELSE IF b <= 1 THEN None
    ELSE IF d.tag = "ValueError" THEN ValueError
    ELSE [tag |-> "ok", a |-> a.num, b |-> b, d |-> d]

MasterMatch(match) ==
    IF match = <<>> THEN None
    ELSE MasterParams(MasterCoefficient(match[1]), DigitsValue(match[2]),
                      MasterDegree(match[3]))

\* _parse_master_params: None, ValueError (a float() call raised), or
\* [tag |-> "ok", a, b, d] with a, b whole and d a reduced fraction.
_parse_master_params(recurrence) ==
    MasterMatch(MasterSearch(RemoveSpaces(recurrence)))

Solution(theta, justification) ==
    [tag |-> "Solution", theta |-> theta, justification |-> justification]

\* d against critical_exponent = math.log(a, b), for a >= 1 and b > 1:
\* d < log_b a exactly when b^d < a, i.e. b^num < a^den.  The code compares
\* floats with epsilon = 1e-9; on whole a, b and fractions d the two
\* comparisons agree (the exponents differ by 0 or by far more than 1e-9).
CompareToCritical(a, b, d) ==
    IF b ^ d.num < a ^ d.den THEN "below"
    ELSE IF b ^ d.num = a ^ d.den THEN "equal"
    ELSE "above"

\* a < (b ** d)
Regular(a, b, d) == a ^ d.den < b ^ d.num

\* n_crit of Case 1: n^int(c) when c is whole; otherwise the code prints c
\* rounded to two decimals, which is written here as log_b(a).
CriticalPower(a, b) ==
    IF \E k \in 0..a : b ^ k = a
    THEN "n^" \o Join(ToDigits(CHOOSE k \in 0..a : b ^ k = a))
    ELSE "n^log_" \o Join(ToDigits(b)) \o "(" \o Join(ToDigits(a)) \o ")"

\* n_crit of Case 2: n^int(d) when d is whole, else n^d
BalancedPower(d) ==
    IF d.den = 1 THEN "n^" \o Join(ToDigits(d.num)) ELSE "n^" \o Join(FloatRepr(d))

QuicksortName == <<"q", "u", "i", "c", "k", "s", "o", "r", "t">>

MasterCase(position, a, b, d) ==
    IF position = "below"
    THEN Solution("Theta(" \o CriticalPower(a, b) \o ")", "Caso 1")
    ELSE IF position = "equal"
    THEN Solution("Theta(" \o BalancedPower(d) \o " log n)", "Caso 2")
    ELSE IF Regular(a, b, d)
    THEN Solution("Theta(n^" \o Join(FloatRepr(d)) \o ")", "Caso 3")
    ELSE None

MasterEvaluate(identifier, a, b, d) ==
    IF a = 0 THEN ValueError                       \* math.log(0.0, b)
    ELSE IF \/ (a = 2 /\ b = 2 /\ d = One)         \* is_quicksort
            \/ Contains(LowerSeq(identifier), QuicksortName)
    THEN Solution("Theta(n log n)", "QuickSort")
    ELSE MasterCase(CompareToCritical(a, b, d), a, b, d)

MasterResult(identifier, params) ==
    IF params.tag # "ok" THEN params
    ELSE MasterEvaluate(identifier, params.a, params.b, params.d)

solve_with_master_theorem(rel) ==
    MasterResult(rel.identifier, _parse_master_params(rel.recurrence))

solve_with_substitution(rel) ==
    IF EndsWith(rel.recurrence, <<"+", " ", "n">>)
    THEN Solution("Theta(n)", "telescoping")
    ELSE None

\* The relations solve is applied to.
Heads ==
    {<<"T", "(", "n", ")", "=">>,
     <<"T", "(", "n", ")", " ", "=", " ">>,
     <<"t", "(", "n", ")", "=">>}

CoefficientTexts ==
    {<<>>, <<"*">>} \cup
    {ToDigits(a) : a \in 0..MaxCoefficient} \cup
    {ToDigits(a) \o <<"*">> : a \in 0..MaxCoefficient}

CallTexts ==
    {<<"T", "(", "n", "/">> \o ToDigits(b) \o <<")">> : b \in 0..MaxDivisor} \cup
    {<<"T", "(", "n", "-", "1", ")">>}

PlusTexts == {<<"+">>, <<" ", "+", " ">>}

CostTexts ==
    {<<"1">>, <<"n">>, <<"c">>, <<"n", "^">>, <<"n", "^", ".">>} \cup
    {<<"n", "^">> \o ToDigits(k) : k \in 0..MaxExponent} \cup
    {<<"n", "^">> \o ToDigits(k) \o <<".", "5">> : k \in 0..MaxExponent}

Recurrences ==
    {h \o a \o c \o p \o f :
        h \in Heads, a \in CoefficientTexts, c \in CallTexts,
        p \in PlusTexts, f \in CostTexts}

Identifiers ==
    {<<"T">>, QuicksortName, <<"Q", "u", "i", "c", "k", "S", "o", "r", "t">>}

RecurrenceRelation(identifier, recurrence) ==
    [identifier |-> identifier, recurrence |-> recurrence]

SolveFixed == UNCHANGED relation /\ UNCHANGED <<lexvars, pipevars, engvars, measvars, parsevars, extvars, treevars>>

\* solve: the master handler returned a solution
MasterReturns ==
    /\ solvepc = "master"
    /\ solve_with_master_theorem(relation).tag = "Solution"
    /\ solution' = solve_with_master_theorem(relation)
    /\ solvepc' = "done"
    /\ SolveFixed

\* solve: the master handler returned None, the next handler is tried
MasterDeclines ==
    /\ solvepc = "master"
    /\ solve_with_master_theorem(relation).tag = "None"
    /\ solvepc' = "substitution"
    /\ UNCHANGED solution
    /\ SolveFixed

\* solve: the master handler raised, the exception leaves solve
MasterRaises ==
    /\ solvepc = "master"
    /\ solve_with_master_theorem(relation).tag = "ValueError"
    /\ solution' = ValueError
    /\ solvepc' = "raised"
    /\ SolveFixed

SubstitutionReturns ==
    /\ solvepc = "substitution"
    /\ solve_with_substitution(relation).tag = "Solution"
    /\ solution' = solve_with_substitution(relation)
    /\ solvepc' = "done"
    /\ SolveFixed

\* solve: no handler answered, solve returns None
SubstitutionDeclines ==
    /\ solvepc = "substitution"
    /\ solve_with_substitution(relation).tag = "None"
    /\ solution' = None
    /\ solvepc' = "done"
    /\ SolveFixed

SolveInit ==
    /\ relation \in {RecurrenceRelation(i, r) : i \in Identifiers, r \in Recurrences}
    /\ solvepc = "master"
    /\ solution = None

SolveNext ==
    \/ MasterReturns
    \/ MasterDeclines
    \/ MasterRaises
    \/ SubstitutionReturns
    \/ SubstitutionDeclines

SolveIdle ==
    /\ relation = RecurrenceRelation(<<>>, <<>>)
    /\ solvepc = "idle"
    /\ solution = None

(***************************************************************************)
(* Complexity engine: measures                                             *)
(***************************************************************************)

ComplexityMeasure(degree, log_power, exponential_base) ==
    [degree |-> degree, log_power |-> log_power,
     exponential_base |-> exponential_base]

dominates_ignoring_log_power(self, other) ==
    IF self.exponential_base > 0 /\ other.exponential_base = 0 THEN TRUE
    ELSE IF self.exponential_base = 0 /\ other.exponential_base > 0 THEN FALSE
    ELSE IF self.exponential_base > 0 /\ other.exponential_base > 0
    THEN self.exponential_base >= other.exponential_base
    ELSE IF self.degree # other.degree THEN self.degree > other.degree
    ELSE TRUE

dominates(self, other) ==
    IF self.exponential_base > 0 /\ other.exponential_base = 0 THEN TRUE
    ELSE IF self.exponential_base = 0 /\ other.exponential_base > 0 THEN FALSE
    ELSE IF self.exponential_base > 0 /\ other.exponential_base > 0
    THEN self.exponential_base >= other.exponential_base
    ELSE IF self.degree # other.degree THEN self.degree > other.degree
    ELSE self.log_power >= other.log_power

max_with(self, other) == IF dominates(self, other) THEN self ELSE other

min_with(self, other) == IF dominates(self, other) THEN other ELSE self

\* the new measure keeps log_power and has no exponential base
add_degree(self, amount) ==
    ComplexityMeasure(self.degree + amount, self.log_power, 0)

\* the new measure keeps degree and has no exponential base
add_log(self, amount) ==
    ComplexityMeasure(self.degree, self.log_power + amount, 0)

CaseComplexity(best, worst, average) ==
    [best |-> best, worst |-> worst, average |-> average]

constant ==
    CaseComplexity(ComplexityMeasure(0, 0, 0), ComplexityMeasure(0, 0, 0),
                   ComplexityMeasure(0, 0, 0))

combine_sequence(self, other) ==
    CaseComplexity(max_with(self.best, other.best),
                   max_with(self.worst, other.worst),
                   max_with(self.average, other.average))

combine_branch_worst_min(self, other) ==
    CaseComplexity(min_with(self.best, other.best),
                   min_with(self.worst, other.worst),
                   max_with(self.average, other.average))

combine_branch(self, other) ==
    CaseComplexity(min_with(self.best, other.best),
                   max_with(self.worst, other.worst),
                   max_with(self.average, other.average))

scale_by_degree(self, degree) ==
    IF degree = 0 THEN self
    ELSE CaseComplexity(add_degree(self.best, degree),
                        add_degree(self.worst, degree),
                        add_degree(self.average, degree))

\* CaseComplexity.max_with
CaseComplexity_max_with(self, other) ==
    CaseComplexity(max_with(self.best, other.best),
                   max_with(self.worst, other.worst),
                   max_with(self.average, other.average))

(***************************************************************************)
(* Complexity engine: syntax trees                                         *)
(***************************************************************************)

\* Nodes are records tagged with the class name; names are texts.
Identifier(name) == [node |-> "Identifier", name |-> name]
Number(value) == [node |-> "Number", value |-> value]
BooleanLiteral(truth) == [node |-> "BooleanLiteral", truth |-> truth]
BinaryOperation(operator, left, right) ==
    [node |-> "BinaryOperation", operator |-> operator, left |-> left,
     right |-> right]
ArrayAccess(base, index) == [node |-> "ArrayAccess", base |-> base, index |-> index]
CallExpression(callee, arguments) ==
    [node |-> "CallExpression", callee |-> callee, arguments |-> arguments]

Assignment(target, value) == [node |-> "Assignment", target |-> target, value |-> value]
CallStatement(name, arguments) ==
    [node |-> "CallStatement", name |-> name, arguments |-> arguments]
ReturnStatement(value) == [node |-> "ReturnStatement", value |-> value]
ForLoop(iterator, start, stop, body) ==
    [node |-> "ForLoop", iterator |-> iterator, start |-> start, stop |-> stop,
     body |-> body]
WhileLoop(condition, body) ==
    [node |-> "WhileLoop", condition |-> condition, body |-> body]
RepeatUntilLoop(body, condition) ==
    [node |-> "RepeatUntilLoop", body |-> body, condition |-> condition]
IfStatement(condition, then_branch, else_branch) ==
    [node |-> "IfStatement", condition |-> condition,
     then_branch |-> then_branch, else_branch |-> else_branch]
Procedure(name, body) == [node |-> "Procedure", name |-> name, body |-> body]
Program(body, procedures) ==
    [node |-> "Program", body |-> body, procedures |-> procedures]

RelationalOperators == {"<", "<=", ">", ">=", "="}

(***************************************************************************)
(* Complexity engine: helpers of the structural analysis                   *)
(***************************************************************************)

RECURSIVE _expression_depends_on_input(_, _)
_expression_depends_on_input(expr, ignore) ==
    CASE expr.node \in {"Number", "BooleanLiteral"} -> FALSE
      [] expr.node = "Identifier" -> expr.name \notin ignore
      [] expr.node = "ArrayAccess" ->
            \/ _expression_depends_on_input(expr.base, ignore)
            \/ _expression_depends_on_input(expr.index, ignore)
      [] expr.node = "BinaryOperation" ->
            \/ _expression_depends_on_input(expr.left, ignore)
            \/ _expression_depends_on_input(expr.right, ignore)
      [] OTHER -> TRUE

_infer_iteration_degree_counting_literals(start, stop, ignore) == 1

_infer_iteration_degree(start, stop, ignore) ==
    IF ~_expression_depends_on_input(stop, ignore)
    THEN (IF _expression_depends_on_input(start, ignore) THEN 1 ELSE 0)
    ELSE 1

_infer_condition_degree(expr, ignore) ==
    IF expr.node = "BinaryOperation" /\ expr.operator \in RelationalOperators
    THEN (IF \/ _expression_depends_on_input(expr.left, ignore)
             \/ _expression_depends_on_input(expr.right, ignore)
          THEN 1 ELSE 0)
    ELSE (IF _expression_depends_on_input(expr, ignore) THEN 1 ELSE 0)

\* the variable's name, or the empty text for None
_extract_loop_variable(expr) ==
    IF expr.node = "BinaryOperation" /\ expr.operator \in RelationalOperators
    THEN (IF expr.left.node = "Identifier" THEN expr.left.name
          ELSE IF expr.right.node = "Identifier" THEN expr.right.name
          ELSE <<>>)
    ELSE <<>>

_assignment_progresses_variable(assignment, var_name) ==
    /\ assignment.target.node = "Identifier"
    /\ assignment.target.name = var_name
    /\ assignment.value.node = "BinaryOperation"
    /\ assignment.value.left.node = "Identifier"
    /\ assignment.value.left.name = var_name
    /\ assignment.value.right.node = "Number"
    /\ assignment.value.operator \in {"+", "-"}

RECURSIVE _body_progresses_variable(_, _)
_body_progresses_variable(statements, var_name) ==
    \E k \in 1..Len(statements) :
        \/ /\ statements[k].node = "Assignment"
           /\ _assignment_progresses_variable(statements[k], var_name)
        \/ /\ statements[k].node = "IfStatement"
           /\ \/ _body_progresses_variable(statements[k].then_branch, var_name)
              \/ _body_progresses_variable(statements[k].else_branch, var_name)

ExitFlagKeywords ==
    {<<"e", "n", "c", "o", "n", "t", "r">>, <<"f", "o", "u", "n", "d">>,
     <<"f", "l", "a", "g">>, <<"e", "x", "i", "s", "t">>}

\* an identifier whose lowered name contains one of the keywords
IsExitFlag(expr) ==
    /\ expr.node = "Identifier"
    /\ \E keyword \in ExitFlagKeywords : Contains(LowerSeq(expr.name), keyword)

RECURSIVE _condition_has_exit_flag(_)
_condition_has_exit_flag(condition) ==
    /\ condition.node = "BinaryOperation"
    /\ IF condition.operator \in {"and", "or"}
       THEN \/ _condition_has_exit_flag(condition.left)
            \/ _condition_has_exit_flag(condition.right)
       ELSE /\ condition.operator = "="
            /\ (IsExitFlag(condition.left) \/ IsExitFlag(condition.right))

RECURSIVE _extract_flag_names(_)
_extract_flag_names(condition) ==
    IF condition.node # "BinaryOperation" THEN {}
    ELSE IF condition.operator \in {"and", "or"}
    THEN _extract_flag_names(condition.left) \cup _extract_flag_names(condition.right)
    ELSE IF condition.operator = "="
    THEN {e.name : e \in {f \in {condition.left, condition.right} : IsExitFlag(f)}}
    ELSE {}

\* flag_names is _extract_flag_names(condition)
RECURSIVE BodySetsFlag(_, _)
BodySetsFlag(statements, flag_names) ==
    \E k \in 1..Len(statements) :
        \/ /\ statements[k].node = "Assignment"
           /\ statements[k].target.node = "Identifier"
           /\ statements[k].target.name \in flag_names
        \/ /\ statements[k].node = "IfStatement"
           /\ \/ BodySetsFlag(statements[k].then_branch, flag_names)
              \/ BodySetsFlag(statements[k].else_branch, flag_names)

_body_can_set_exit_flag(statements, condition) ==
    BodySetsFlag(statements, _extract_flag_names(condition))

_has_early_exit_condition(loop) ==
    /\ _condition_has_exit_flag(loop.condition)
    /\ _body_can_set_exit_flag(loop.body, loop.condition)

\* degree of _analyze_while: 1 unless the body progresses the variable of
\* the condition
WhileDegree(loop, loop_var) ==
    IF loop_var # <<>> /\ _body_progresses_variable(loop.body, loop_var)
    THEN _infer_condition_degree(loop.condition, {loop_var})
    ELSE 1

WhileCase(body_case, degree, has_early_exit) ==
    CaseComplexity(
        IF has_early_exit THEN ComplexityMeasure(0, 0, 0)
        ELSE add_degree(body_case.best, degree),
        add_degree(body_case.worst, degree),
        add_degree(body_case.average, degree))

\* The context (the set of loop iterators) is passed along by the code and
\* never read, so it is left out.
RECURSIVE _analyze_block(_), _analyze_statement(_)
_analyze_for(loop) ==
    scale_by_degree(_analyze_block(loop.body),
                    _infer_iteration_degree(loop.start, loop.stop, {loop.iterator}))

_analyze_while(loop) ==
    WhileCase(_analyze_block(loop.body),
              WhileDegree(loop, _extract_loop_variable(loop.condition)),
              _has_early_exit_condition(loop))

_analyze_repeat(loop) ==
    scale_by_degree(_analyze_block(loop.body),
                    _infer_condition_degree(loop.condition, {}))

_analyze_if(node) ==
    combine_branch(_analyze_block(node.then_branch),
                   _analyze_block(node.else_branch))

_analyze_statement(statement) ==
    CASE statement.node = "ForLoop" -> _analyze_for(statement)
      [] statement.node = "WhileLoop" -> _analyze_while(statement)
      [] statement.node = "RepeatUntilLoop" -> _analyze_repeat(statement)
      [] statement.node = "IfStatement" -> _analyze_if(statement)
      [] OTHER -> constant

_analyze_block(statements) ==
    IF statements = <<>> THEN constant
    ELSE combine_sequence(_analyze_block(SubSeq(statements, 1, Len(statements) - 1)),
                          _analyze_statement(statements[Len(statements)]))

(***************************************************************************)
(* Complexity engine: recursion patterns                                   *)
(***************************************************************************)

\* RecursionRecognizer._expression_has_recursive_call
RECURSIVE _expression_has_recursive_call(_, _)
_expression_has_recursive_call(expr, known_names) ==
    CASE expr.node = "CallExpression" ->
            \/ /\ expr.callee.node = "Identifier"
               /\ expr.callee.name # <<>>
               /\ LowerSeq(expr.callee.name) \in known_names
            \/ \E k \in 1..Len(expr.arguments) :
                  _expression_has_recursive_call(expr.arguments[k], known_names)
      [] expr.node = "BinaryOperation" ->
            \/ _expression_has_recursive_call(expr.left, known_names)
            \/ _expression_has_recursive_call(expr.right, known_names)
      [] expr.node = "ArrayAccess" ->
            \/ _expression_has_recursive_call(expr.base, known_names)
            \/ _expression_has_recursive_call(expr.index, known_names)
      [] OTHER -> FALSE

\* RecursionRecognizer._has_recursive_call
RECURSIVE _has_recursive_call(_, _)
_has_recursive_call(statements, known_names) ==
    \E k \in 1..Len(statements) :
        CASE statements[k].node = "CallStatement" ->
                LowerSeq(statements[k].name) \in known_names
          [] statements[k].node \in {"Assignment", "ReturnStatement"} ->
                _expression_has_recursive_call(statements[k].value, known_names)
          [] statements[k].node = "IfStatement" ->
                \/ _has_recursive_call(statements[k].then_branch, known_names)
                \/ _has_recursive_call(statements[k].else_branch, known_names)
          [] statements[k].node \in {"ForLoop", "WhileLoop", "RepeatUntilLoop"} ->
                _has_recursive_call(statements[k].body, known_names)
          [] OTHER -> FALSE

known_procedures(procedures) ==
    {LowerSeq(procedures[k].name) : k \in 1..Len(procedures)} \cup
    {<<"s", "e", "l", "f">>, <<"r", "e", "c", "u", "r", "s", "e">>}

\* RecursionRecognizer.match yields a "recursion" match
RecursionRecognizer(prog) ==
    \/ _has_recursive_call(prog.body, known_procedures(prog.procedures))
    \/ \E k \in 1..Len(prog.procedures) :
          _has_recursive_call(prog.procedures[k].body,
                              known_procedures(prog.procedures))

\* the visit of _count_recursive_calls over a statement list
RECURSIVE CountCalls(_, _)
CountCalls(statements, proc_name) ==
    IF statements = <<>> THEN 0
    ELSE CountCalls(Tail(statements), proc_name) +
         (CASE Head(statements).node = "CallStatement" ->
                 (IF \/ LowerSeq(Head(statements).name) = LowerSeq(proc_name)
                     \/ Head(statements).name = <<"s", "e", "l", "f">>
                  THEN 1 ELSE 0)
            [] Head(statements).node = "IfStatement" ->
                 CountCalls(Head(statements).then_branch, proc_name) +
                 CountCalls(Head(statements).else_branch, proc_name)
            [] Head(statements).node \in {"WhileLoop", "ForLoop"} ->
                 CountCalls(Head(statements).body, proc_name)
            [] OTHER -> 0)

_count_recursive_calls(proc) == CountCalls(proc.body, proc.name)

RECURSIVE _contains_comparison(_)
_contains_comparison(expr) ==
    /\ expr.node = "BinaryOperation"
    /\ \/ expr.operator \in RelationalOperators
       \/ _contains_comparison(expr.left)
       \/ _contains_comparison(expr.right)

PartitionWords ==
    {<<"p", "a", "r", "t", "i", "c", "i", "o", "n">>,
     <<"p", "a", "r", "t", "i", "t", "i", "o", "n">>}

\* search_statements of _has_partition_pattern
RECURSIVE SearchPartition(_)
SearchPartition(statements) ==
    \E k \in 1..Len(statements) :
        CASE statements[k].node = "WhileLoop" ->
                \/ _contains_comparison(statements[k].condition)
                \/ SearchPartition(statements[k].body)
          [] statements[k].node = "CallStatement" ->
                \E w \in PartitionWords : Contains(LowerSeq(statements[k].name), w)
          [] statements[k].node = "IfStatement" ->
                \/ SearchPartition(statements[k].then_branch)
                \/ SearchPartition(statements[k].else_branch)
          [] statements[k].node = "ForLoop" -> SearchPartition(statements[k].body)
          [] OTHER -> FALSE

_has_partition_pattern(proc) == SearchPartition(proc.body)

_contains_midpoint_calculation(statements) ==
    \E k \in 1..Len(statements) :
        /\ statements[k].node = "Assignment"
        /\ statements[k].value.node = "BinaryOperation"
        /\ statements[k].value.operator \in {"/", "div"}
        /\ statements[k].value.left.node = "BinaryOperation"
        /\ statements[k].value.left.operator = "+"

_has_binary_search_condition(proc) ==
    \E k \in 1..Len(proc.body) :
        /\ proc.body[k].node = "IfStatement"
        /\ \/ _contains_midpoint_calculation(proc.body[k].then_branch)
           \/ _contains_midpoint_calculation(proc.body[k].else_branch)

\* search of _has_loops
RECURSIVE SearchLoops(_)
SearchLoops(statements) ==
    \E k \in 1..Len(statements) :
        \/ statements[k].node \in {"WhileLoop", "ForLoop", "RepeatUntilLoop"}
        \/ /\ statements[k].node = "IfStatement"
           /\ \/ SearchLoops(statements[k].then_branch)
              \/ SearchLoops(statements[k].else_branch)

_has_loops(proc) == SearchLoops(proc.body)

_has_early_return_in_condition(proc) ==
    \E k \in 1..Len(proc.body) :
        /\ proc.body[k].node = "IfStatement"
        /\ \E j \in 1..Len(proc.body[k].then_branch) :
              proc.body[k].then_branch[j].node = "ReturnStatement"

\* search of _has_linear_recursive_calls
RECURSIVE SearchLinearCalls(_, _)
SearchLinearCalls(statements, proc_name) ==
    \E k \in 1..Len(statements) :
        \/ /\ statements[k].node = "CallStatement"
           /\ LowerSeq(statements[k].name) = LowerSeq(proc_name)
           /\ \E j \in 1..Len(statements[k].arguments) :
                 /\ statements[k].arguments[j].node = "BinaryOperation"
                 /\ statements[k].arguments[j].operator = "-"
        \/ /\ statements[k].node = "IfStatement"
           /\ \/ SearchLinearCalls(statements[k].then_branch, proc_name)
              \/ SearchLinearCalls(statements[k].else_branch, proc_name)

_has_linear_recursive_calls(proc) == SearchLinearCalls(proc.body, proc.name)

\* the part of _detect_recursive_pattern for two or more recursive calls
MultipleCallsPattern(proc, recursive_calls, has_loops, has_partition) ==
    IF ~has_loops /\ ~has_partition /\ _has_early_return_in_condition(proc)
    THEN "fibonacci"
    ELSE IF /\ recursive_calls = 2 /\ ~has_loops /\ ~has_partition
            /\ _has_linear_recursive_calls(proc)
    THEN "hanoi"
    ELSE IF has_partition THEN "quicksort"
    ELSE "mergesort"

PatternForCount(proc, recursive_calls) ==
    IF recursive_calls = 0 THEN "unknown"
    ELSE IF recursive_calls >= 2
    THEN MultipleCallsPattern(proc, recursive_calls, _has_loops(proc),
                              _has_partition_pattern(proc))
    ELSE IF _has_binary_search_condition(proc) THEN "binarysearch"
    ELSE "linear"

_detect_recursive_pattern(proc) == PatternForCount(proc, _count_recursive_calls(proc))

(***************************************************************************)
(* Complexity engine: analyze                                              *)
(***************************************************************************)

OMEGA == "U+03A9"
THETA == "U+0398"

RECURSIVE JoinFactors(_)
JoinFactors(factors) ==
    IF Len(factors) = 1 THEN factors[1]
    ELSE factors[1] \o " " \o JoinFactors(Tail(factors))

Factors_polynomial_first(self) ==
    (IF self.degree > 0
     THEN <<IF self.degree = 1 THEN "n" ELSE "n^" \o Join(ToDigits(self.degree))>>
     ELSE <<>>) \o
    (IF self.exponential_base > 0
     THEN <<Join(ToDigits(self.exponential_base)) \o "^n">> ELSE <<>>) \o
    (IF self.log_power > 0
     THEN <<IF self.log_power = 1 THEN "log n"
            ELSE "(log n)^" \o Join(ToDigits(self.log_power))>>
     ELSE <<>>)

Factors(self) ==
    (IF self.exponential_base > 0
     THEN <<Join(ToDigits(self.exponential_base)) \o "^n">> ELSE <<>>) \o
    (IF self.degree > 0
     THEN <<IF self.degree = 1 THEN "n" ELSE "n^" \o Join(ToDigits(self.degree))>>
     ELSE <<>>) \o
    (IF self.log_power > 0
     THEN <<IF self.log_power = 1 THEN "log n"
            ELSE "(log n)^" \o Join(ToDigits(self.log_power))>>
     ELSE <<>>)

to_notation(self, prefix) ==
    IF self.degree = 0 /\ self.log_power = 0 /\ self.exponential_base = 0
    THEN prefix \o "(1)"
    ELSE prefix \o "(" \o JoinFactors(Factors(self)) \o ")"

ComplexityResult(case) ==
    [best_case    |-> to_notation(case.best, OMEGA),
     worst_case   |-> to_notation(case.worst, "O"),
     average_case |-> to_notation(case.average, THETA)]

\* has_recursion: a "recursion" match of the pattern library, or a procedure
\* with a counted recursive call
DetectRecursion(prog) ==
    \/ RecursionRecognizer(prog)
    \/ \E k \in 1..Len(prog.procedures) : _count_recursive_calls(prog.procedures[k]) > 0

\* program_case after the body and every procedure body are folded in
RECURSIVE FoldProcedures(_, _)
FoldProcedures(case, procedures) ==
    IF procedures = <<>> THEN case
    ELSE FoldProcedures(
             CaseComplexity_max_with(case, _analyze_block(Head(procedures).body)),
             Tail(procedures))

StructuralCase(prog) == FoldProcedures(_analyze_block(prog.body), prog.procedures)

\* the first procedure with a counted recursive call, else the last one
RecursiveProcedure(procedures, Counted) ==
    IF Counted # {} THEN procedures[Min(Counted)] ELSE procedures[Len(procedures)]

DetectPatternOf(prog, recursive) ==
    IF recursive /\ prog.procedures # <<>>
    THEN _detect_recursive_pattern(
             RecursiveProcedure(prog.procedures,
                 {k \in 1..Len(prog.procedures) :
                     _count_recursive_calls(prog.procedures[k]) > 0}))
    ELSE "unknown"

recursion_case_quicksort_swapped(pattern) ==
    CASE pattern \in {"fibonacci", "hanoi"} ->
            CaseComplexity(ComplexityMeasure(0, 0, 2), ComplexityMeasure(0, 0, 2),
                           ComplexityMeasure(0, 0, 2))
      [] pattern = "quicksort" ->
            CaseComplexity(ComplexityMeasure(2, 0, 0), ComplexityMeasure(1, 1, 0),
                           ComplexityMeasure(1, 1, 0))
      [] pattern = "mergesort" ->
            CaseComplexity(ComplexityMeasure(1, 1, 0), ComplexityMeasure(1, 1, 0),
                           ComplexityMeasure(1, 1, 0))
      [] pattern = "binarysearch" ->
            CaseComplexity(ComplexityMeasure(0, 0, 0), ComplexityMeasure(0, 1, 0),
                           ComplexityMeasure(0, 1, 0))
      [] OTHER ->
            CaseComplexity(ComplexityMeasure(1, 0, 0), ComplexityMeasure(1, 1, 0),
                           ComplexityMeasure(1, 1, 0))

recursion_case(pattern) ==
    CASE pattern \in {"fibonacci", "hanoi"} ->
            CaseComplexity(ComplexityMeasure(0, 0, 2), ComplexityMeasure(0, 0, 2),
                           ComplexityMeasure(0, 0, 2))
      [] pattern = "quicksort" ->
            CaseComplexity(ComplexityMeasure(1, 1, 0), ComplexityMeasure(2, 0, 0),
                           ComplexityMeasure(1, 1, 0))
      [] pattern = "mergesort" ->
            CaseComplexity(ComplexityMeasure(1, 1, 0), ComplexityMeasure(1, 1, 0),
                           ComplexityMeasure(1, 1, 0))
      [] pattern = "binarysearch" ->
            CaseComplexity(ComplexityMeasure(0, 0, 0), ComplexityMeasure(0, 1, 0),
                           ComplexityMeasure(0, 1, 0))
      [] OTHER ->
            CaseComplexity(ComplexityMeasure(1, 0, 0), ComplexityMeasure(1, 1, 0),
                           ComplexityMeasure(1, 1, 0))

ReplaceByRecursionCase(case, recursion) == recursion

\* program_case = program_case.max_with(recursion_case)
ApplyRecursionCase(case, recursion) == CaseComplexity_max_with(case, recursion)

NoResult == [best_case |-> "", worst_case |-> "", average_case |-> ""]

EngFixed == UNCHANGED program /\ UNCHANGED <<lexvars, pipevars, solvevars, measvars, parsevars, extvars, treevars>>

MatchPatterns ==
    /\ engpc = "match"
    /\ has_recursion' = DetectRecursion(program)
    /\ engpc' = "structure"
    /\ UNCHANGED <<program_case, recursive_pattern, result>>
    /\ EngFixed

AnalyzeStructure ==
    /\ engpc = "structure"
    /\ program_case' = StructuralCase(program)
    /\ engpc' = "detect"
    /\ UNCHANGED <<has_recursion, recursive_pattern, result>>
    /\ EngFixed

DetectPattern ==
    /\ engpc = "detect"
    /\ recursive_pattern' = DetectPatternOf(program, has_recursion)
    /\ engpc' = "recursion"
    /\ UNCHANGED <<has_recursion, program_case, result>>
    /\ EngFixed

ApplyRecursion ==
    /\ engpc = "recursion"
    /\ has_recursion
    /\ program_case' = ApplyRecursionCase(program_case, recursion_case(recursive_pattern))
    /\ engpc' = "report"
    /\ UNCHANGED <<has_recursion, recursive_pattern, result>>
    /\ EngFixed

SkipRecursion ==
    /\ engpc = "recursion"
    /\ ~has_recursion
    /\ engpc' = "report"
    /\ UNCHANGED <<has_recursion, program_case, recursive_pattern, result>>
    /\ EngFixed

Report ==
    /\ engpc = "report"
    /\ result' = ComplexityResult(program_case)
    /\ engpc' = "done"
    /\ UNCHANGED <<has_recursion, program_case, recursive_pattern>>
    /\ EngFixed

EngNext ==
    \/ MatchPatterns
    \/ AnalyzeStructure
    \/ DetectPattern
    \/ ApplyRecursion
    \/ SkipRecursion
    \/ Report

EngIdle ==
    /\ program = Program(<<>>, <<>>)
    /\ engpc = "idle"
    /\ has_recursion = FALSE
    /\ program_case = constant
    /\ recursive_pattern = "unknown"
    /\ result = NoResult

(***************************************************************************)
(* Complexity engine: the programs analyzed                                *)
(***************************************************************************)

Names ==
    [n |-> <<"n">>, i |-> <<"i">>, j |-> <<"j">>, x |-> <<"x">>, A |-> <<"A">>,
     low |-> <<"l", "o", "w">>, high |-> <<"h", "i", "g", "h">>,
     mid |-> <<"m", "i", "d">>, found |-> <<"f", "o", "u", "n", "d">>,
     fib |-> <<"f", "i", "b">>, Fib |-> <<"F", "i", "b">>,
     hanoi |-> <<"h", "a", "n", "o", "i">>, sort |-> <<"s", "o", "r", "t">>,
     partition |-> <<"p", "a", "r", "t", "i", "t", "i", "o", "n">>,
     search |-> <<"s", "e", "a", "r", "c", "h">>,
     fact |-> <<"f", "a", "c", "t">>, aux |-> <<"a", "u", "x">>,
     run |-> <<"r", "u", "n">>]

\* v := v + 1 or v := v - 1
Step(v, operator) ==
    Assignment(Identifier(v), BinaryOperation(operator, Identifier(v), Number(1)))

Compare(operator, left, right) ==
    BinaryOperation(operator, Identifier(left), Identifier(right))

SetFound == Assignment(Identifier(Names.found), BooleanLiteral(TRUE))

NotFound ==
    BinaryOperation("=", Identifier(Names.found), BooleanLiteral(FALSE))

Midpoint ==
    Assignment(Identifier(Names.mid),
               BinaryOperation("div", Compare("+", Names.low, Names.high), Number(2)))

\* mid := (low + high) div 2; if A[mid] = x then found := T else low := mid + 1
BinarySearchBody ==
    <<Midpoint,
      IfStatement(
          BinaryOperation("=", ArrayAccess(Identifier(Names.A), Identifier(Names.mid)),
                          Identifier(Names.x)),
          <<SetFound>>,
          <<Assignment(Identifier(Names.low),
                       BinaryOperation("+", Identifier(Names.mid), Number(1)))>>)>>

SimpleStatements ==
    {Step(Names.x, "+"), Step(Names.i, "+"), Step(Names.i, "-"), Step(Names.n, "-"),
     SetFound,
     CallStatement(Names.aux, <<Identifier(Names.n)>>)}

LoopBodies == {<<s>> : s \in SimpleStatements} \cup {BinarySearchBody}

WhileConditions ==
    {Compare("<", Names.i, Names.n),
     BinaryOperation(">", Identifier(Names.i), Number(0)),
     BinaryOperation(">", Identifier(Names.n), Number(0)),
     Compare("<=", Names.low, Names.high),
     BinaryOperation("and", Compare("<=", Names.low, Names.high), NotFound),
     NotFound}

\* <<start, stop>> of a for-loop
ForBounds ==
    {<<Number(1), Identifier(Names.n)>>, <<Identifier(Names.n), Number(1)>>,
     <<Number(1), Number(1)>>}

Loops ==
    {ForLoop(Names.i, b[1], b[2], body) : b \in ForBounds, body \in LoopBodies} \cup
    {WhileLoop(c, body) : c \in WhileConditions, body \in LoopBodies} \cup
    {RepeatUntilLoop(<<Step(Names.i, "+")>>, c) :
        c \in {Compare(">=", Names.i, Names.n),
               BinaryOperation("=", Number(1), Number(1))}}

\* s inside k for-loops over 1..n
RECURSIVE Nest(_, _)
Nest(s, k) ==
    IF k = 0 THEN s
    ELSE ForLoop(Names.j, Number(1), Identifier(Names.n), <<Nest(s, k - 1)>>)

Branches ==
    {<<>>, <<Step(Names.x, "+")>>, <<ReturnStatement(Identifier(Names.x))>>} \cup
    {<<Nest(Step(Names.x, "+"), k)>> : k \in 1..MaxLoopDepth} \cup
    {<<WhileLoop(BinaryOperation("and", Compare("<=", Names.low, Names.high), NotFound),
                 BinarySearchBody)>>}

Ifs ==
    {IfStatement(Compare("<", Names.x, Names.n), t, e) : t \in Branches, e \in Branches}

Statements ==
    SimpleStatements \cup {Nest(s, k) : s \in Loops \cup Ifs, k \in 0..MaxLoopDepth}

Bodies ==
    {<<>>} \cup {<<s>> : s \in Statements} \cup
    {<<s, t>> : s \in SimpleStatements, t \in Loops}

LessOne(v, k) == BinaryOperation("-", Identifier(v), Number(k))

BaseCase ==
    IfStatement(BinaryOperation("<=", Identifier(Names.n), Number(1)),
                <<ReturnStatement(Identifier(Names.n))>>, <<>>)

Procedures ==
    [fib_calls |->
        Procedure(Names.fib,
            <<BaseCase,
              CallStatement(Names.fib, <<LessOne(Names.n, 1)>>),
              CallStatement(Names.fib, <<LessOne(Names.n, 2)>>)>>),
     fib_upper |->
        Procedure(Names.Fib,
            <<BaseCase,
              CallStatement(Names.fib, <<LessOne(Names.n, 1)>>),
              CallStatement(Names.fib, <<LessOne(Names.n, 2)>>)>>),
     fib_return |->
        Procedure(Names.fib,
            <<IfStatement(BinaryOperation("<=", Identifier(Names.n), Number(1)),
                  <<ReturnStatement(Identifier(Names.n))>>,
                  <<ReturnStatement(
                        BinaryOperation("+",
                            CallExpression(Identifier(Names.fib), <<LessOne(Names.n, 1)>>),
                            CallExpression(Identifier(Names.fib), <<LessOne(Names.n, 2)>>)))>>)>>),
     hanoi |->
        Procedure(Names.hanoi,
            <<IfStatement(BinaryOperation(">", Identifier(Names.n), Number(0)),
                  <<CallStatement(Names.hanoi, <<LessOne(Names.n, 1)>>),
                    CallStatement(Names.aux, <<Identifier(Names.n)>>),
                    CallStatement(Names.hanoi, <<LessOne(Names.n, 1)>>)>>,
                  <<>>)>>),
     hanoi_one_linear |->
        Procedure(Names.hanoi,
            <<IfStatement(BinaryOperation(">", Identifier(Names.n), Number(0)),
                  <<CallStatement(Names.hanoi, <<LessOne(Names.n, 1)>>),
                    CallStatement(Names.hanoi, <<Identifier(Names.n)>>)>>,
                  <<>>)>>),
     quicksort |->
        Procedure(Names.sort,
            <<IfStatement(Compare("<", Names.low, Names.high),
                  <<CallStatement(Names.partition, <<Identifier(Names.low)>>),
                    CallStatement(Names.sort, <<Identifier(Names.low)>>),
                    CallStatement(Names.sort, <<Identifier(Names.high)>>)>>,
                  <<>>)>>),
     mergesort |->
        Procedure(Names.sort,
            <<IfStatement(Compare("<", Names.low, Names.high),
                  <<Midpoint,
                    CallStatement(Names.sort, <<Identifier(Names.low)>>),
                    CallStatement(Names.sort, <<Identifier(Names.high)>>),
                    ForLoop(Names.i, Identifier(Names.low), Identifier(Names.high),
                            <<Step(Names.x, "+")>>)>>,
                  <<>>)>>),
     binarysearch |->
        Procedure(Names.search,
            <<IfStatement(Compare("<=", Names.low, Names.high),
                  <<Midpoint, CallStatement(Names.search, <<Identifier(Names.mid)>>)>>,
                  <<>>)>>),
     linear |->
        Procedure(Names.fact,
            <<BaseCase, CallStatement(Names.fact, <<LessOne(Names.n, 1)>>)>>),
     aux |-> Procedure(Names.aux, <<Step(Names.x, "+")>>),
     run |-> Procedure(Names.run, <<CallStatement(Names.aux, <<Identifier(Names.n)>>)>>)]

ProcedureLists ==
    {<<>>} \cup {<<Procedures[f]>> : f \in DOMAIN Procedures} \cup
    {<<Procedures.aux, Procedures[f]>> : f \in {"fib_calls", "fib_return"}} \cup
    {<<Procedures[f], Procedures.aux>> : f \in {"fib_calls", "fib_return"}} \cup
    {<<Procedures.aux, Procedures.run>>}

EngInit ==
    /\ program \in {Program(body, procedures) :
                       body \in Bodies, procedures \in ProcedureLists}
    /\ engpc = "match"
    /\ has_recursion = FALSE
    /\ program_case = constant
    /\ recursive_pattern = "unknown"
    /\ result = NoResult

(***************************************************************************)
(* ComplexityMeasure: one method call on bounded measures                  *)
(***************************************************************************)

Measures ==
    {ComplexityMeasure(degree, log_power, exponential_base) :
        degree \in 0..MaxDegree, log_power \in 0..MaxLogPower,
        exponential_base \in 0..MaxBase}

Prefixes == {"O", OMEGA, THETA}

Amounts == {0, 1}

Returned(method, value) == [method |-> method, value |-> value]

MeasFixed ==
    UNCHANGED <<receiver, argument>> /\ UNCHANGED <<lexvars, pipevars, solvevars, engvars, parsevars, extvars, treevars>>

CallDominates ==
    /\ measpc = "call"
    /\ returned' = Returned("dominates", dominates(receiver, argument))
    /\ measpc' = "returned"
    /\ MeasFixed

CallMaxWith ==
    /\ measpc = "call"
    /\ returned' = Returned("max_with", max_with(receiver, argument))
    /\ measpc' = "returned"
    /\ MeasFixed

CallMinWith ==
    /\ measpc = "call"
    /\ returned' = Returned("min_with", min_with(receiver, argument))
    /\ measpc' = "returned"
    /\ MeasFixed

CallAddDegree ==
    /\ measpc = "call"
    /\ \E amount \in Amounts :
          returned' = Returned("add_degree", add_degree(receiver, amount))
    /\ measpc' = "returned"
    /\ MeasFixed

CallAddLog ==
    /\ measpc = "call"
    /\ \E amount \in Amounts :
          returned' = Returned("add_log", add_log(receiver, amount))
    /\ measpc' = "returned"
    /\ MeasFixed

CallToNotation ==
    /\ measpc = "call"
    /\ \E prefix \in Prefixes :
          returned' = Returned("to_notation",
                               [prefix |-> prefix, text |-> to_notation(receiver, prefix)])
    /\ measpc' = "returned"
    /\ MeasFixed

\* the measures that fill the remaining fields of the two operands
FieldMeasures ==
    {ComplexityMeasure(0, 0, 0), ComplexityMeasure(1, 0, 0),
     ComplexityMeasure(1, 0, 2), ComplexityMeasure(0, 1, 2)}

\* self.combine_sequence(other) on two CaseComplexity values
CallCombineSequence ==
    /\ measpc = "call"
    /\ \E third \in FieldMeasures :
          LET self == CaseComplexity(receiver, argument, third)
              other == CaseComplexity(argument, third, receiver)
          IN  returned' = Returned("combine_sequence",
                                   [self |-> self, other |-> other,
                                    value |-> combine_sequence(self, other)])
    /\ measpc' = "returned"
    /\ MeasFixed

MeasInit ==
    /\ receiver \in Measures
    /\ argument \in Measures
    /\ measpc = "call"
    /\ returned = Returned("none", FALSE)

MeasNext ==
    \/ CallDominates
    \/ CallMaxWith
    \/ CallMinWith
    \/ CallAddDegree
    \/ CallAddLog
    \/ CallToNotation
    \/ CallCombineSequence

MeasIdle ==
    /\ receiver = ComplexityMeasure(0, 0, 0)
    /\ argument = ComplexityMeasure(0, 0, 0)
    /\ measpc = "idle"
    /\ returned = Returned("none", FALSE)

-----------------------------------------------------------------------------
(***************************************************************************)
(* Parser: Parser(source).parse()                                          *)
(***************************************************************************)

\* Parser.__init__ tokenizes the whole source first.  A token is the
\* lexer's Token with one more field, text: the lexeme as a sequence of
\* characters (what int() and the names of nodes are computed from).
WithText(token, text) ==
    [kind |-> token.kind, lexeme |-> token.lexeme, line |-> token.line,
     column |-> token.column, text |-> text]

INFINITO == <<"i", "n", "f", "i", "n", "i", "t", "o">>

Tokenized(toks) == [error |-> "", tokens |-> toks]

\* the result of iter_tokens from index i on; error is "LexerError", or
\* "hang" when the loop repeats on a carriage return
RECURSIVE iter_tokens(_, _, _, _, _)
WordToken(src, i, j, ln, col, toks) ==
    iter_tokens(src, j, ln, col + (j - i),
        Append(toks,
            WithText(Token(IF LowerJoin(Slice(src, i, j)) \in RESERVED_WORDS
                           THEN "KEYWORD" ELSE "IDENTIFIER",
                           LowerJoin(Slice(src, i, j)), ln, col),
                     LowerSeq(Slice(src, i, j)))))

NumberToken(src, i, j, ln, col, toks) ==
    iter_tokens(src, j, ln, col + (j - i),
        Append(toks, WithText(Token("NUMBER", Join(Slice(src, i, j)), ln, col),
                              Slice(src, i, j))))

\* j is the index of the closing quote
StringToken(src, i, j, ln, col, toks) ==
    IF j >= Len(src) THEN [error |-> "LexerError", tokens |-> toks]
    ELSE iter_tokens(src, j + 1, ln + CountNewlines(src, i + 1, j),
             StringColumn(src, i + 1, j, col + 1) + 1,
             Append(toks,
                 WithText(Token("STRING", Join(Slice(src, i + 1, j)),
                                ln + CountNewlines(src, i + 1, j), col),
                          Slice(src, i + 1, j))))

SymbolToken(src, i, ms, ln, col, toks) ==
    IF ms = <<>>
    THEN iter_tokens(src, i + 1, ln, col + 1,
             Append(toks, WithText(Token("SYMBOL", src[i + 1], ln, col), <<src[i + 1]>>)))
    ELSE iter_tokens(src, i + ms[2], ln, col + ms[2],
             Append(toks, WithText(Token("SYMBOL", ms[1], ln, col),
                                   Slice(src, i, i + ms[2]))))

iter_tokens(src, i, ln, col, toks) ==
    IF i >= Len(src)
    THEN Tokenized(Append(toks, WithText(Token("EOF", "", ln, col), <<>>)))
    ELSE CASE src[i + 1] \in {" ", "\t", "\r"} ->
                 IF _consume_whitespace(src, i) = i
                 THEN [error |-> "hang", tokens |-> toks]
                 ELSE iter_tokens(src, _consume_whitespace(src, i), ln,
                                  col + (_consume_whitespace(src, i) - i), toks)
           [] src[i + 1] = INFINITY ->
                 iter_tokens(src, i + 1, ln, col + 1,
                     Append(toks, WithText(Token("IDENTIFIER", "infinito", ln, col),
                                           INFINITO)))
           [] src[i + 1] = "\n" -> iter_tokens(src, i + 1, ln + 1, 1, toks)
           [] src[i + 1] = COMMENTMARK ->
                 iter_tokens(src, _consume_comment(src, i), ln,
                             col + (_consume_comment(src, i) - i), toks)
           [] src[i + 1] = "." /\ _peek(src, i + 1) = "." ->
                 iter_tokens(src, i + 2, ln, col + 2,
                     Append(toks, WithText(Token("SYMBOL", "..", ln, col), <<".", ".">>)))
           [] isalpha(src[i + 1]) ->
                 WordToken(src, i, _consume_identifier(src, i), ln, col, toks)
           [] isdigit(src[i + 1]) ->
                 NumberToken(src, i, _consume_number(src, i), ln, col, toks)
           [] src[i + 1] = "\"" ->
                 StringToken(src, i, ScanWhile(src, i + 1, NotQuote), ln, col, toks)
           [] OTHER ->
                 SymbolToken(src, i, _consume_multi_symbol(src, i), ln, col, toks)

\* Lexer(source).tokenize()
tokenize(src) == iter_tokens(src, 0, 1, 1, <<>>)

\* Nodes the engine does not tell apart
UnaryOperation(operator, operand) ==
    [node |-> "UnaryOperation", operator |-> operator, operand |-> operand]
NullLiteral == [node |-> "NullLiteral"]
StringLiteral(value) == [node |-> "StringLiteral", value |-> value]
FieldAccess(base, field_name) ==
    [node |-> "FieldAccess", base |-> base, field_name |-> field_name]
RangeExpression(start, end) ==
    [node |-> "RangeExpression", start |-> start, end |-> end]
LengthCall(array_name) == [node |-> "LengthCall", array_name |-> array_name]
PrintStatement(expression) == [node |-> "PrintStatement", expression |-> expression]

\* What a parsing method returns: the node (or the list of nodes) and the
\* index it leaves in self._index, or the exception it raises.  The line
\* and column of a node are left out: nothing reads them.
Parsed(node, index) == [error |-> "", node |-> node, index |-> index]

Raised(error) == [error |-> error, node |-> <<>>, index |-> 0]

ParserError == Raised("ParserError")

_current(toks, i) == IF i >= Len(toks) THEN toks[Len(toks)] ELSE toks[i + 1]

\* self._index after _advance
_advance_past_end(toks, i) == i + 1

_advance(toks, i) == IF i < Len(toks) - 1 THEN i + 1 ELSE i

_check(toks, i, kind) == _current(toks, i).kind = kind

_check_symbol(toks, i, value) ==
    _current(toks, i).kind = "SYMBOL" /\ _current(toks, i).lexeme = value

_check_keyword(toks, i, values) ==
    _current(toks, i).kind = "KEYWORD" /\ _current(toks, i).lexeme \in values

\* _expect_keyword after a method that returned r: r with the keyword consumed
_expect_keyword(toks, r, value) ==
    IF r.error # "" THEN r
    ELSE IF _check_keyword(toks, r.index, {value})
    THEN Parsed(r.node, _advance(toks, r.index))
    ELSE ParserError

\* _expect_symbol and _expect_symbol_any
_expect_symbol_any(toks, r, values) ==
    IF r.error # "" THEN r
    ELSE IF _current(toks, r.index).kind = "SYMBOL"
            /\ _current(toks, r.index).lexeme \in values
    THEN Parsed(r.node, _advance(toks, r.index))
    ELSE ParserError

_expect_symbol(toks, r, value) == _expect_symbol_any(toks, r, {value})

\* _expect_identifier: the node of the result is the identifier's text
_expect_identifier(toks, i) ==
    IF _check(toks, i, "IDENTIFIER")
    THEN Parsed(_current(toks, i).text, _advance(toks, i))
    ELSE ParserError

\* the operator a binary level matches at a token, "" for none; the
\* comparison level turns the two glyphs into <= and >=
BinaryOperator(level, token) ==
    CASE level = "or" /\ token.kind = "KEYWORD" /\ token.lexeme = "or" -> "or"
      [] level = "and" /\ token.kind = "KEYWORD" /\ token.lexeme = "and" -> "and"
      [] level = "equality" /\ token.kind = "SYMBOL" /\ token.lexeme \in {"=", "<>"} ->
            token.lexeme
      [] level = "comparison" /\ token.kind = "SYMBOL"
            /\ token.lexeme \in {"<", ">", "<=", ">="} -> token.lexeme
      [] level = "comparison" /\ token.kind = "SYMBOL" /\ token.lexeme = LEQ -> "<="
      [] level = "comparison" /\ token.kind = "SYMBOL" /\ token.lexeme = GEQ -> ">="
      [] level = "term" /\ token.kind = "SYMBOL" /\ token.lexeme \in {"+", "-"} ->
            token.lexeme
      [] level = "factor" /\ token.kind = "SYMBOL" /\ token.lexeme \in {"*", "/"} ->
            token.lexeme
      [] level = "factor" /\ token.kind = "KEYWORD" /\ token.lexeme \in {"mod", "div"} ->
            token.lexeme
      [] OTHER -> ""

Binary(operator, left, right) ==
    IF right.error # "" THEN right
    ELSE Parsed(BinaryOperation(operator, left.node, right.node), right.index)

Unary(operator, operand) ==
    IF operand.error # "" THEN operand
    ELSE Parsed(UnaryOperation(operator, operand.node), operand.index)

\* for index_expr in indexes: expr = ArrayAccess(base=expr, index=index_expr)
RECURSIVE ArrayAccesses(_, _)
ArrayAccesses(expr, indexes) ==
    IF indexes = <<>> THEN expr
    ELSE ArrayAccesses(ArrayAccess(expr, Head(indexes)), Tail(indexes))

RECURSIVE _parse_expression(_, _), _parse_unary(_, _), _parse_primary(_, _),
          _parse_postfix(_, _), _parse_call_invocation(_, _), ParseLevel(_, _, _),
          BinaryLoop(_, _, _), ExpressionList(_, _, _)

\* the binary levels from the loosest to the tightest; each level's method
\* parses operands with the method of the next level
NextLevel(level) ==
    CASE level = "or" -> "and"
      [] level = "and" -> "equality"
      [] level = "equality" -> "comparison"
      [] level = "comparison" -> "term"
      [] level = "term" -> "factor"
      [] level = "factor" -> "unary"

\* the operand of a level: the method of the next level
Operand(toks, i, level) == ParseLevel(toks, i, NextLevel(level))

\* while an operator of the level follows: expr = BinaryOperation(expr, rhs)
BinaryLoop(toks, level, expr) ==
    IF expr.error # "" THEN expr
    ELSE IF BinaryOperator(level, _current(toks, expr.index)) = "" THEN expr
    ELSE BinaryLoop(toks, level,
             Binary(BinaryOperator(level, _current(toks, expr.index)), expr,
                    Operand(toks, _advance(toks, expr.index), level)))

\* the method of a level: one operand, then the loop of the level
ParseLevel(toks, i, level) ==
    IF level = "unary" THEN _parse_unary(toks, i)
    ELSE BinaryLoop(toks, level, Operand(toks, i, level))

_parse_or(toks, i) == ParseLevel(toks, i, "or")

_parse_and(toks, i) == ParseLevel(toks, i, "and")

_parse_equality(toks, i) == ParseLevel(toks, i, "equality")

_parse_comparison(toks, i) == ParseLevel(toks, i, "comparison")

_parse_term(toks, i) == ParseLevel(toks, i, "term")

_parse_factor(toks, i) == ParseLevel(toks, i, "factor")

_parse_expression(toks, i) == _parse_or(toks, i)

_parse_unary(toks, i) ==
    IF \/ _check_symbol(toks, i, "-") \/ _check_symbol(toks, i, "+")
       \/ _check_keyword(toks, i, {"not"})
    THEN Unary(_current(toks, i).lexeme, _parse_unary(toks, _advance(toks, i)))
    ELSE _parse_primary(toks, i)

\* one expression, then one more after every comma; acc holds the nodes
\* parsed before r
ExpressionList(toks, acc, r) ==
    IF r.error # "" THEN r
    ELSE IF _check_symbol(toks, r.index, ",")
    THEN ExpressionList(toks, Append(acc, r.node),
                        _parse_expression(toks, _advance(toks, r.index)))
    ELSE Parsed(Append(acc, r.node), r.index)

\* CallExpression has the fields callee and arguments: the keyword name
\* makes its constructor raise
CallExpressionNode(invocation) ==
    IF invocation.error # "" THEN invocation ELSE Raised("TypeError")

\* ast_nodes has no ArrayCreation
ArrayCreationNode(size) == IF size.error # "" THEN size ELSE Raised("AttributeError")

_parse_call_expression(toks, i) == CallExpressionNode(_parse_call_invocation(toks, i))

\* the node of the result is <<name, arguments>>
CallInvocation(name, arguments) ==
    IF arguments.error # "" THEN arguments
    ELSE Parsed(<<name, arguments.node>>, arguments.index)

CallArguments(toks, name, open) ==
    IF open.error # "" THEN open
    ELSE IF _check_symbol(toks, open.index, ")")
    THEN CallInvocation(name.node, Parsed(<<>>, _advance(toks, open.index)))
    ELSE CallInvocation(name.node,
             _expect_symbol(toks,
                 ExpressionList(toks, <<>>, _parse_expression(toks, open.index)), ")"))

CallName(toks, name) ==
    IF name.error # "" THEN name ELSE CallArguments(toks, name, _expect_symbol(toks, name, "("))

_parse_call_invocation(toks, i) ==
    IF _check_keyword(toks, i, {"call"})
    THEN CallName(toks, _expect_identifier(toks, _advance(toks, i)))
    ELSE ParserError

_parse_new_array_expression(toks, i) ==
    IF ~_check_keyword(toks, _advance(toks, i), {"array"}) THEN ParserError
    ELSE IF _check_symbol(toks, _advance(toks, _advance(toks, i)), "(")
    THEN ArrayCreationNode(
             _expect_symbol(toks,
                 _parse_expression(toks, _advance(toks, _advance(toks, _advance(toks, i)))),
                 ")"))
    ELSE IF _check_symbol(toks, _advance(toks, _advance(toks, i)), "[")
    THEN ArrayCreationNode(
             _expect_symbol(toks,
                 _parse_expression(toks, _advance(toks, _advance(toks, _advance(toks, i)))),
                 "]"))
    ELSE ParserError

LengthName(toks, name) ==
    IF name.error # "" THEN name
    ELSE _expect_symbol(toks, Parsed(LengthCall(name.node), name.index), ")")

LengthOpen(toks, open) ==
    IF open.error # "" THEN open ELSE LengthName(toks, _expect_identifier(toks, open.index))

_parse_length_call(toks, i) ==
    LengthOpen(toks, _expect_symbol(toks, Parsed(<<>>, _advance(toks, i)), "("))

_parse_primary(toks, i) ==
    CASE _check(toks, i, "NUMBER") ->
            _parse_postfix(toks,
                Parsed(Number(DigitsValue(_current(toks, i).text)), _advance(toks, i)))
      [] _check(toks, i, "STRING") ->
            _parse_postfix(toks,
                Parsed(StringLiteral(_current(toks, i).text), _advance(toks, i)))
      [] _check_keyword(toks, i, {"null"}) -> Parsed(NullLiteral, _advance(toks, i))
      [] _check_keyword(toks, i, {"t", "f"}) ->
            Parsed(BooleanLiteral(_current(toks, i).lexeme = "t"), _advance(toks, i))
      [] _check_keyword(toks, i, {"length"}) -> _parse_length_call(toks, i)
      [] _check_keyword(toks, i, {"new"}) -> _parse_new_array_expression(toks, i)
      [] _check_keyword(toks, i, {"call"}) -> _parse_call_expression(toks, i)
      [] _check(toks, i, "IDENTIFIER") ->
            _parse_postfix(toks,
                Parsed(Identifier(_current(toks, i).text), _advance(toks, i)))
      [] _check_symbol(toks, i, "(") ->
            _expect_symbol(toks, _parse_expression(toks, _advance(toks, i)), ")")
      [] OTHER -> ParserError

PostfixIndexes(toks, expr, indexes) ==
    IF indexes.error # "" THEN indexes
    ELSE _parse_postfix(toks, Parsed(ArrayAccesses(expr.node, indexes.node), indexes.index))

PostfixField(toks, expr, name) ==
    IF name.error # "" THEN name
    ELSE _parse_postfix(toks, Parsed(FieldAccess(expr.node, name.node), name.index))

PostfixRange(toks, expr, right) ==
    IF right.error # "" THEN right
    ELSE _parse_postfix(toks, Parsed(RangeExpression(expr.node, right.node), right.index))

\* expr is the result parsed so far
_parse_postfix(toks, expr) ==
    CASE _check_symbol(toks, expr.index, "[") ->
            PostfixIndexes(toks, expr,
                _expect_symbol(toks,
                    ExpressionList(toks, <<>>,
                        _parse_expression(toks, _advance(toks, expr.index))),
                    "]"))
      [] _check_symbol(toks, expr.index, ".") ->
            PostfixField(toks, expr, _expect_identifier(toks, _advance(toks, expr.index)))
      [] _check_symbol(toks, expr.index, "..") ->
            PostfixRange(toks, expr, _parse_expression(toks, _advance(toks, expr.index)))
      [] OTHER -> expr

\* ReturnStatement.value when the statement has no expression
NoValue == [node |-> "None"]

ClassDefinition(name, attributes) ==
    [node |-> "ClassDefinition", name |-> name, attributes |-> attributes]

\* has_paren = self._match_symbol("("); condition; the closing parenthesis
\* is expected when has_paren
Condition(toks, i) ==
    IF _check_symbol(toks, i, "(")
    THEN _expect_symbol(toks, _parse_expression(toks, _advance(toks, i)), ")")
    ELSE _parse_expression(toks, i)

PrintNode(expression) ==
    IF expression.error # "" THEN expression
    ELSE Parsed(PrintStatement(expression.node), expression.index)

_parse_print_statement(toks, i) == PrintNode(Condition(toks, _advance(toks, i)))

CallStatementNode(invocation) ==
    IF invocation.error # "" THEN invocation
    ELSE Parsed(CallStatement(invocation.node[1], invocation.node[2]), invocation.index)

_parse_call_statement(toks, i) == CallStatementNode(_parse_call_invocation(toks, i))

ReturnNode(value) ==
    IF value.error # "" THEN value
    ELSE Parsed(ReturnStatement(value.node), value.index)

_parse_return_statement(toks, i) ==
    IF ~_check_keyword(toks, _advance(toks, i), {"end", "else"})
       /\ ~_check(toks, _advance(toks, i), "EOF")
    THEN ReturnNode(_parse_expression(toks, _advance(toks, i)))
    ELSE Parsed(ReturnStatement(NoValue), _advance(toks, i))

RECURSIVE LvalueLoop(_, _)
LvalueIndexes(toks, expr, indexes) ==
    IF indexes.error # "" THEN indexes
    ELSE LvalueLoop(toks, Parsed(ArrayAccesses(expr.node, indexes.node), indexes.index))

LvalueField(toks, expr, name) ==
    IF name.error # "" THEN name
    ELSE LvalueLoop(toks, Parsed(FieldAccess(expr.node, name.node), name.index))

LvalueLoop(toks, expr) ==
    CASE _check_symbol(toks, expr.index, "[") ->
            LvalueIndexes(toks, expr,
                _expect_symbol(toks,
                    ExpressionList(toks, <<>>,
                        _parse_expression(toks, _advance(toks, expr.index))),
                    "]"))
      [] _check_symbol(toks, expr.index, ".") ->
            LvalueField(toks, expr, _expect_identifier(toks, _advance(toks, expr.index)))
      [] OTHER -> expr

LvalueName(toks, name) ==
    IF name.error # "" THEN name
    ELSE LvalueLoop(toks, Parsed(Identifier(name.node), name.index))

_parse_lvalue(toks, i) == LvalueName(toks, _expect_identifier(toks, i))

AssignmentNode(target, value) ==
    IF value.error # "" THEN value
    ELSE Parsed(Assignment(target, value.node), value.index)

AssignmentValue(toks, target) ==
    IF target.error # "" THEN target
    ELSE AssignmentNode(target.node, _parse_expression(toks, target.index))

\* the lexemes _expect_symbol_any is given in _parse_assignment
AssignmentSymbols == {ARROW, ":="}

_parse_assignment(toks, i) ==
    AssignmentValue(toks, _expect_symbol_any(toks, _parse_lvalue(toks, i), AssignmentSymbols))

RECURSIVE _parse_statement(_, _), _parse_statement_block(_, _, _), BlockLoop(_, _, _),
          _parse_if_statement(_, _)

BlockAppend(toks, end_keywords, statements, statement) ==
    IF statement.error # "" THEN statement
    ELSE BlockLoop(toks, end_keywords,
                   Parsed(Append(statements.node, statement.node), statement.index))

\* while not self._check_keywords(end_keywords) and not self._check(EOF)
BlockLoop(toks, end_keywords, statements) ==
    IF _check_keyword(toks, statements.index, end_keywords)
       \/ _check(toks, statements.index, "EOF")
    THEN statements
    ELSE BlockAppend(toks, end_keywords, statements,
                     _parse_statement(toks, statements.index))

_parse_statement_block(toks, i, end_keywords) ==
    BlockLoop(toks, end_keywords, Parsed(<<>>, i))

\* the same loop as _parse_statement_block
_parse_inline_statements(toks, i, stop_keywords) ==
    BlockLoop(toks, stop_keywords, Parsed(<<>>, i))

_parse_mandatory_block(toks, i) ==
    IF _check_keyword(toks, i, {"begin"})
    THEN _expect_keyword(toks, _parse_statement_block(toks, _advance(toks, i), {"end"}),
                         "end")
    ELSE ParserError

_parse_loop_body(toks, i) ==
    IF _check_keyword(toks, i, {"begin"})
    THEN _expect_keyword(toks, _parse_statement_block(toks, _advance(toks, i), {"end"}),
                         "end")
    ELSE _expect_keyword(toks, _parse_inline_statements(toks, i, {"end"}), "end")

ForNode(iterator, start, stop, body) ==
    IF body.error # "" THEN body
    ELSE Parsed(ForLoop(iterator, start, stop, body.node), body.index)

ForDo(toks, iterator, start, stop) ==
    IF stop.error # "" THEN stop
    ELSE ForNode(iterator, start, stop.node, _parse_loop_body(toks, stop.index))

ForTo(toks, iterator, start) ==
    IF start.error # "" THEN start
    ELSE ForDo(toks, iterator, start.node,
               _expect_keyword(toks, _parse_expression(toks, start.index), "do"))

ForStart(toks, iterator) ==
    IF iterator.error # "" THEN iterator
    ELSE ForTo(toks, iterator.node,
               _expect_keyword(toks, _parse_expression(toks, iterator.index), "to"))

\* the lexeme _expect_symbol is given in _parse_for_loop
ForSymbols == {ARROW}

_parse_for_loop(toks, i) ==
    ForStart(toks,
        _expect_symbol_any(toks, _expect_identifier(toks, _advance(toks, i)), ForSymbols))

WhileNode(condition, body) ==
    IF body.error # "" THEN body
    ELSE Parsed(WhileLoop(condition, body.node), body.index)

WhileDo(toks, condition) ==
    IF condition.error # "" THEN condition
    ELSE WhileNode(condition.node, _parse_loop_body(toks, condition.index))

_parse_while_loop(toks, i) ==
    WhileDo(toks, _expect_keyword(toks, Condition(toks, _advance(toks, i)), "do"))

RepeatNode(body, condition) ==
    IF condition.error # "" THEN condition
    ELSE Parsed(RepeatUntilLoop(body, condition.node), condition.index)

RepeatUntil(toks, body) ==
    IF body.error # "" THEN body
    ELSE RepeatNode(body.node, Condition(toks, body.index))

_parse_repeat_until_loop(toks, i) ==
    RepeatUntil(toks,
        _expect_keyword(toks, _parse_statement_block(toks, _advance(toks, i), {"until"}),
                        "until"))

IfNode(condition, then_branch, else_branch) ==
    IF else_branch.error # "" THEN else_branch
    ELSE Parsed(IfStatement(condition, then_branch, else_branch.node), else_branch.index)

ElseIf(statement) ==
    IF statement.error # "" THEN statement
    ELSE Parsed(<<statement.node>>, statement.index)

\* i is the index after else
ElseBranch(toks, i) ==
    IF _check_keyword(toks, i, {"if"}) THEN ElseIf(_parse_if_statement(toks, i))
    ELSE IF _check_keyword(toks, i, {"begin"})
    THEN _expect_keyword(toks, _parse_statement_block(toks, _advance(toks, i), {"end"}),
                         "end")
    ELSE _parse_inline_statements(toks, i, {"end"})

IfElse(toks, condition, then_branch) ==
    IF then_branch.error # "" THEN then_branch
    ELSE IF _check_keyword(toks, then_branch.index, {"else"})
    THEN IfNode(condition, then_branch.node,
                ElseBranch(toks, _advance(toks, then_branch.index)))
    ELSE Parsed(IfStatement(condition, then_branch.node, <<>>), then_branch.index)

\* i is the index after then; inline statements leave the stop keyword
ThenBranch(toks, i) ==
    IF _check_keyword(toks, i, {"begin"})
    THEN _expect_keyword(toks, _parse_statement_block(toks, _advance(toks, i), {"end"}),
                         "end")
    ELSE _parse_inline_statements(toks, i, {"else", "end"})

IfThen(toks, condition) ==
    IF condition.error # "" THEN condition
    ELSE IfElse(toks, condition.node, ThenBranch(toks, condition.index))

_parse_if_statement(toks, i) ==
    IfThen(toks, _expect_keyword(toks, Condition(toks, _advance(toks, i)), "then"))

_parse_statement(toks, i) ==
    CASE _check_keyword(toks, i, {"for"}) -> _parse_for_loop(toks, i)
      [] _check_keyword(toks, i, {"while"}) -> _parse_while_loop(toks, i)
      [] _check_keyword(toks, i, {"repeat"}) -> _parse_repeat_until_loop(toks, i)
      [] _check_keyword(toks, i, {"if"}) -> _parse_if_statement(toks, i)
      [] _check_keyword(toks, i, {"call"}) -> _parse_call_statement(toks, i)
      [] _check_keyword(toks, i, {"return"}) -> _parse_return_statement(toks, i)
      [] _check_keyword(toks, i, {"print"}) -> _parse_print_statement(toks, i)
      [] _check(toks, i, "IDENTIFIER") -> _parse_assignment(toks, i)
      [] OTHER -> ParserError

RECURSIVE DimensionLoop(_, _)
DimensionClosed(toks, closed) ==
    IF closed.error # "" THEN closed ELSE DimensionLoop(toks, closed.index)

\* while self._match_symbol("["): an optional size, then "]"
DimensionLoop(toks, i) ==
    IF ~_check_symbol(toks, i, "[") THEN Parsed(<<>>, i)
    ELSE IF _check_symbol(toks, _advance(toks, i), "]")
    THEN DimensionLoop(toks, _advance(toks, _advance(toks, i)))
    ELSE DimensionClosed(toks,
             _expect_symbol(toks, _parse_expression(toks, _advance(toks, i)), "]"))

ObjectParameter(toks, class_name) ==
    IF class_name.error # "" THEN class_name
    ELSE _expect_identifier(toks, class_name.index)

ArrayParameter(toks, name) ==
    IF name.error # "" THEN name
    ELSE IF _check_symbol(toks, name.index, "[")
    THEN DimensionLoop(toks, _advance(toks, name.index))
    ELSE name

\* the index _parse_parameter leaves; the Parameter node is not kept
_parse_parameter(toks, i) ==
    IF _check_keyword(toks, i, {"class"})
    THEN ObjectParameter(toks, _expect_identifier(toks, _advance(toks, i)))
    ELSE ArrayParameter(toks, _expect_identifier(toks, i))

RECURSIVE ParameterLoop(_, _)
\* while self._match_symbol(","): self._parse_parameter()
ParameterLoop(toks, parameter) ==
    IF parameter.error # "" THEN parameter
    ELSE IF _check_symbol(toks, parameter.index, ",")
    THEN ParameterLoop(toks, _parse_parameter(toks, _advance(toks, parameter.index)))
    ELSE parameter

\* the parameters up to and with the closing parenthesis; i is the index
\* after the opening one
Parameters(toks, i) ==
    IF _check_symbol(toks, i, ")") THEN Parsed(<<>>, _advance(toks, i))
    ELSE _expect_symbol(toks, ParameterLoop(toks, _parse_parameter(toks, i)), ")")

ProcedureNode(name, body) ==
    IF body.error # "" THEN body
    ELSE Parsed(Procedure(name, body.node), body.index)

ProcedureBody(toks, name, parameters) ==
    IF parameters.error # "" THEN parameters
    ELSE ProcedureNode(name, _parse_mandatory_block(toks, parameters.index))

ProcedureParameters(toks, name, open) ==
    IF open.error # "" THEN open
    ELSE ProcedureBody(toks, name.node, Parameters(toks, open.index))

ProcedureName(toks, name) == ProcedureParameters(toks, name, _expect_symbol(toks, name, "("))

_parse_procedure(toks, i) == ProcedureName(toks, _expect_identifier(toks, i))

RECURSIVE AttributeLoop(_, _)
AttributeAppend(toks, attributes, name) ==
    IF name.error # "" THEN name
    ELSE AttributeLoop(toks, Parsed(Append(attributes.node, name.node), name.index))

\* while not self._check_symbol("}"): an attribute name
AttributeLoop(toks, attributes) ==
    IF _check_symbol(toks, attributes.index, "}")
    THEN Parsed(attributes.node, _advance(toks, attributes.index))
    ELSE AttributeAppend(toks, attributes, _expect_identifier(toks, attributes.index))

ClassNode(name, attributes) ==
    IF attributes.error # "" THEN attributes
    ELSE Parsed(ClassDefinition(name, attributes.node), attributes.index)

ClassAttributes(toks, name, open) ==
    IF open.error # "" THEN open
    ELSE ClassNode(name.node, AttributeLoop(toks, Parsed(<<>>, open.index)))

ClassName(toks, name) == ClassAttributes(toks, name, _expect_symbol(toks, name, "{"))

\* i is the index after the keyword class
_parse_class_definition(toks, i) == ClassName(toks, _expect_identifier(toks, i))

RECURSIVE ClassLoop(_, _)
ClassAppend(toks, classes, definition) ==
    IF definition.error # "" THEN definition
    ELSE ClassLoop(toks, Parsed(Append(classes.node, definition.node), definition.index))

\* while self._match_keyword("class")
ClassLoop(toks, classes) ==
    IF _check_keyword(toks, classes.index, {"class"})
    THEN ClassAppend(toks, classes,
                     _parse_class_definition(toks, _advance(toks, classes.index)))
    ELSE classes

HeaderParameters(name, parameters) ==
    IF parameters.error # "" THEN parameters
    ELSE Parsed(name.node, parameters.index)

\* a name and its optional parenthesised parameters, which are not kept
HeaderName(toks, name) ==
    IF name.error # "" THEN name
    ELSE IF _check_symbol(toks, name.index, "(")
    THEN HeaderParameters(name, Parameters(toks, _advance(toks, name.index)))
    ELSE name

\* the optional header: algorithm_name and the index after it
AlgorithmHeader(toks, i) ==
    IF _check_keyword(toks, i, {"algoritmo"})
    THEN HeaderName(toks, _expect_identifier(toks, _advance(toks, i)))
    ELSE Parsed(<<>>, i)

RECURSIVE ProcedureLoop(_, _, _)
ProcedureAppend(toks, stop, procedures, procedure) ==
    IF procedure.error # "" THEN procedure
    ELSE ProcedureLoop(toks, stop,
                       Parsed(Append(procedures.node, procedure.node), procedure.index))

\* the two loops over procedure definitions: the one before the main block
\* stops at begin (stop = {"begin"}), the one after it only at the end of
\* the tokens (stop = {})
ProcedureLoop(toks, stop, procedures) ==
    CASE _check_keyword(toks, procedures.index, stop)
         \/ _check(toks, procedures.index, "EOF") -> procedures
      [] _check_keyword(toks, procedures.index, {"procedimiento"}) ->
            ProcedureAppend(toks, stop, procedures,
                            _parse_procedure(toks, _advance(toks, procedures.index)))
      [] _check(toks, procedures.index, "IDENTIFIER")
         /\ _check_symbol(toks, _advance(toks, procedures.index), "(") ->
            ProcedureAppend(toks, stop, procedures,
                            _parse_procedure(toks, procedures.index))
      [] OTHER -> procedures

ImplicitBegin(toks, algorithm_name, i, name) ==
    IF name.error # "" THEN name
    ELSE IF _check_keyword(toks, name.index, {"begin"}) THEN name
    ELSE Parsed(algorithm_name, i)

\* NOMBRE begin ...: an identifier right before begin names the algorithm;
\* otherwise the index is restored
ImplicitName(toks, algorithm_name, i) ==
    IF algorithm_name = <<>> /\ _check(toks, i, "IDENTIFIER")
    THEN ImplicitBegin(toks, algorithm_name, i,
                       HeaderName(toks, _expect_identifier(toks, i)))
    ELSE Parsed(algorithm_name, i)

\* the local variables of parse when it reaches its return statement
Locals(name, class_definitions, procedures, body) ==
    [name |-> name, class_definitions |-> class_definitions, declarations |-> <<>>,
     procedures |-> procedures, body |-> body]

\* the main block starts with new, or with an identifier followed by "[":
\* the declaration methods the loop calls are not defined
StartsDeclaration(toks, i) ==
    \/ _check_keyword(toks, i, {"new"})
    \/ /\ _check(toks, i, "IDENTIFIER")
       /\ i + 1 < Len(toks)
       /\ toks[i + 2].kind = "SYMBOL"
       /\ toks[i + 2].lexeme = "["

\* the element of a one-element set: a result is computed once and then
\* handed on under a name
The(S) == CHOOSE x \in S : TRUE

ParseEnd(toks, class_definitions, name, body, procedures) ==
    IF procedures.error # "" THEN procedures
    ELSE IF ~_check(toks, procedures.index, "EOF") THEN ParserError
    ELSE Parsed(Locals(name, class_definitions, procedures.node, body),
                _advance(toks, procedures.index))

\* the procedures after the main block, then the end of the tokens
ParseTrailing(toks, class_definitions, name, procedures, body) ==
    IF body.error # "" THEN body
    ELSE The({ParseEnd(toks, class_definitions, name, body.node, trailing) :
                 trailing \in {ProcedureLoop(toks, {}, Parsed(procedures, body.index))}})

\* the declarations loop, the statements of the main block and its end
ParseBody(toks, class_definitions, name, procedures, begin) ==
    IF begin.error # "" THEN begin
    ELSE IF StartsDeclaration(toks, begin.index) THEN Raised("AttributeError")
    ELSE The({ParseTrailing(toks, class_definitions, name.node, procedures, body) :
                 body \in {_expect_keyword(toks,
                               _parse_statement_block(toks, begin.index, {"end"}),
                               "end")}})

\* self._expect_keyword("begin")
ParseBegin(toks, class_definitions, procedures, name) ==
    The({ParseBody(toks, class_definitions, name, procedures, begin) :
            begin \in {_expect_keyword(toks, name, "begin")}})

ParseMain(toks, class_definitions, algorithm_name, procedures) ==
    IF procedures.error # "" THEN procedures
    ELSE The({ParseBegin(toks, class_definitions, procedures.node, name) :
                 name \in {ImplicitName(toks, algorithm_name, procedures.index)}})

\* the procedures before the main block
ParseLeading(toks, class_definitions, name) ==
    IF name.error # "" THEN name
    ELSE The({ParseMain(toks, class_definitions, name.node, leading) :
                 leading \in {ProcedureLoop(toks, {"begin"}, Parsed(<<>>, name.index))}})

\* the optional header
ParseHeader(toks, class_definitions) ==
    IF class_definitions.error # "" THEN class_definitions
    ELSE The({ParseLeading(toks, class_definitions.node, name) :
                 name \in {AlgorithmHeader(toks, class_definitions.index)}})

\* parse up to its return statement
ParseUnit(toks) ==
    The({ParseHeader(toks, classes) : classes \in {ClassLoop(toks, Parsed(<<>>, 0))}})

\* ast_nodes.Program(line, column, name, class_definitions, declarations,
\* procedures, body): the dataclass has no field name, the call raises
ProgramNode(keywords) ==
    IF keywords.error # "" THEN keywords ELSE Raised("TypeError")

\* Parser.parse on the tokens the constructor stored
parse(toks) == ProgramNode(ParseUnit(toks))

(***************************************************************************)
(* Parser: the sources parsed                                              *)
(***************************************************************************)

RECURSIVE Spaced(_)
\* the words with one blank between them
Spaced(words) ==
    IF Len(words) = 0 THEN <<>>
    ELSE IF Len(words) = 1 THEN words[1]
    ELSE words[1] \o <<" ">> \o Spaced(Tail(words))

BEGIN == <<"b", "e", "g", "i", "n">>
END == <<"e", "n", "d">>
FOR == <<"f", "o", "r">>
TO == <<"t", "o">>
DO == <<"d", "o">>
IF_ == <<"i", "f">>
THEN_ == <<"t", "h", "e", "n">>
CALL == <<"c", "a", "l", "l">>
PRINT == <<"p", "r", "i", "n", "t">>
LET_ == <<"l", "e", "t">>
DECLARE == <<"d", "e", "c", "l", "a", "r", "e">>

\* the four ways the assignment operator is written
AssignmentLexemes ==
    [arrow |-> <<ARROW>>, colon_equals |-> <<":", "=">>,
     left_arrow |-> <<LEFTARROW>>, less_minus |-> <<"<", "-">>]

\* One statement on a line of its own: its form and, for an assignment or
\* a for header, the lexeme written for the assignment operator.
Lines ==
    [form : {"assignment", "for"}, lexeme : DOMAIN AssignmentLexemes] \cup
    [form : {"inline_if", "block_if", "let", "declare", "call", "array_store",
             "open_string"},
     lexeme : {"arrow"}]

LineText(l) ==
    CASE l.form = "assignment" ->
            Spaced(<<<<"x">>, AssignmentLexemes[l.lexeme], <<"1">>>>)
      [] l.form = "for" ->
            Spaced(<<FOR, <<"i">>, AssignmentLexemes[l.lexeme], <<"1">>, TO, <<"n">>,
                     DO, <<"x">>, <<ARROW>>, <<"1">>, END>>)
      [] l.form = "inline_if" ->
            Spaced(<<IF_, <<"c">>, THEN_, <<"s">>, <<ARROW>>, <<"1">>,
                     <<"r">>, <<ARROW>>, <<"2">>, END>>)
      [] l.form = "block_if" ->
            Spaced(<<IF_, <<"c">>, THEN_, BEGIN, <<"s">>, <<ARROW>>, <<"1">>,
                     <<"r">>, <<ARROW>>, <<"2">>, END>>)
      [] l.form = "let" -> Spaced(<<LET_, <<"x">>>>)
      [] l.form = "declare" -> Spaced(<<DECLARE, <<"x">>>>)
      [] l.form = "call" -> CALL \o <<" ", "g", "(", "x", ")">>
      [] l.form = "array_store" -> <<"a", "[", "1", "]", " ", ARROW, " ", "1">>
      [] l.form = "open_string" -> PRINT \o <<" ", "\"", "x">>

\* Where the lines stand: in the main block, in the first of two
\* procedures of a source without a main block, in a procedure before an
\* empty main block, or in the main block before a procedure.
Layouts == {"main", "procedures", "procedure_main", "main_procedure"}

Units == [layout : Layouts, lines : SeqsUpTo(Lines, MaxStatements)]

RECURSIVE LinesText(_)
LinesText(lines) ==
    IF lines = <<>> THEN <<>>
    ELSE LineText(Head(lines)) \o <<"\n">> \o LinesText(Tail(lines))

Block(lines) == BEGIN \o <<"\n">> \o LinesText(lines) \o END

\* the string handed to Parser
Source(u) ==
    CASE u.layout = "main" -> Block(u.lines)
      [] u.layout = "procedures" ->
            <<"P", "(", "c", ")", " ">> \o Block(u.lines) \o <<"\n">> \o
            <<"Q", "(", ")", " ">> \o Block(<<>>)
      [] u.layout = "procedure_main" ->
            <<"P", "(", "c", ")", " ">> \o Block(u.lines) \o <<"\n">> \o Block(<<>>)
      [] u.layout = "main_procedure" ->
            Block(u.lines) \o <<"\n">> \o <<"P", "(", "c", ")", " ">> \o Block(<<>>)

(***************************************************************************)
(* Parser: Parser(source) and parse() on one source                        *)
(***************************************************************************)

ParseFixed == UNCHANGED <<lexvars, pipevars, solvevars, engvars, measvars, extvars, treevars>>

\* Parser.__init__ stores the tokens
Construct ==
    /\ parserpc = "new"
    /\ tokenize(Source(unit)).error = ""
    /\ _tokens' = tokenize(Source(unit)).tokens
    /\ parserpc' = "constructed"
    /\ UNCHANGED <<unit, parser_raised, parser_locals>>
    /\ ParseFixed

\* Parser.__init__ lets the lexer's exception through
ConstructRaises ==
    /\ parserpc = "new"
    /\ tokenize(Source(unit)).error = "LexerError"
    /\ parser_raised' = "LexerError"
    /\ parserpc' = "left"
    /\ UNCHANGED <<unit, _tokens, parser_locals>>
    /\ ParseFixed

\* parse(): parser_locals holds the local variables at the return statement, or
\* NoValue when an exception left the method before it
Parse ==
    /\ parserpc = "constructed"
    /\ \E arguments \in {ParseUnit(_tokens)} :
          /\ parser_raised' = ProgramNode(arguments).error
          /\ parser_locals' = IF arguments.error = "" THEN arguments.node ELSE NoValue
    /\ parserpc' = "left"
    /\ UNCHANGED <<unit, _tokens>>
    /\ ParseFixed

ParseInit ==
    /\ unit \in Units
    /\ _tokens = <<>>
    /\ parserpc = "new"
    /\ parser_raised = ""
    /\ parser_locals = NoValue

ParseNext == Construct \/ ConstructRaises \/ Parse

ParseIdle ==
    /\ unit = [layout |-> "main", lines |-> <<>>]
    /\ _tokens = <<>>
    /\ parserpc = "idle"
    /\ parser_raised = ""
    /\ parser_locals = NoValue

-----------------------------------------------------------------------------
(***************************************************************************)
(* Recurrence extractor: GenericASTVisitor                                 *)
(***************************************************************************)

\* GenericASTVisitor.__init__; calls_in_loops is kept as the set of its keys
GenericASTVisitor ==
    [loop_depth |-> 0, max_loop_depth |-> 0, log_depth |-> 0, max_log_depth |-> 0,
     has_log_loop |-> FALSE, recursive_calls |-> 0, recursive_calls_in_loop |-> 0,
     calls_in_loops |-> {}, recursion_type |-> "unknown"]

LoopNodes == {"ForLoop", "WhileLoop", "RepeatUntilLoop"}

Max(S) == CHOOSE x \in S : \A y \in S : x >= y

SELF == <<"s", "e", "l", "f">>

\* GenericASTVisitor._extract_loop_variable: the name, or the empty text
RECURSIVE visitor_extract_loop_variable(_)
visitor_extract_loop_variable(expr) ==
    IF expr.node # "BinaryOperation" THEN <<>>
    ELSE IF expr.operator \in RelationalOperators /\ expr.left.node = "Identifier"
    THEN expr.left.name
    ELSE IF expr.operator \in RelationalOperators /\ expr.right.node = "Identifier"
    THEN expr.right.name
    ELSE IF expr.operator \in {"and", "or"}
    THEN (IF visitor_extract_loop_variable(expr.left) # <<>>
          THEN visitor_extract_loop_variable(expr.left)
          ELSE visitor_extract_loop_variable(expr.right))
    ELSE <<>>

\* var := var / k or var := var div k with a literal k > 1
ReducesByFactor(st, var_name) ==
    /\ st.target.node = "Identifier"
    /\ st.target.name = var_name
    /\ st.value.node = "BinaryOperation"
    /\ st.value.left.node = "Identifier"
    /\ st.value.left.name = var_name
    /\ st.value.operator \in {"/", "div"}
    /\ st.value.right.node = "Number"
    /\ st.value.right.value > 1

RECURSIVE _body_reduces_var_by_factor(_, _)
_body_reduces_var_by_factor(statements, var_name) ==
    \E k \in 1..Len(statements) :
        CASE statements[k].node = "Assignment" ->
                ReducesByFactor(statements[k], var_name)
          [] statements[k].node = "IfStatement" ->
                \/ _body_reduces_var_by_factor(statements[k].then_branch, var_name)
                \/ _body_reduces_var_by_factor(statements[k].else_branch, var_name)
          [] statements[k].node \in {"WhileLoop", "ForLoop"} ->
                _body_reduces_var_by_factor(statements[k].body, var_name)
          [] OTHER -> FALSE

_is_log_while(node) ==
    /\ visitor_extract_loop_variable(node.condition) # <<>>
    /\ _body_reduces_var_by_factor(node.body,
                                   visitor_extract_loop_variable(node.condition))

_body_decrements_variable(statements, var_name) ==
    \E k \in 1..Len(statements) :
        /\ statements[k].node = "Assignment"
        /\ statements[k].target.node = "Identifier"
        /\ statements[k].target.name = var_name
        /\ statements[k].value.node = "BinaryOperation"
        /\ statements[k].value.left.node = "Identifier"
        /\ statements[k].value.left.name = var_name
        /\ statements[k].value.operator = "-"
        /\ statements[k].value.right.node = "Number"

_is_array_shift_while(node) ==
    /\ visitor_extract_loop_variable(node.condition) # <<>>
    /\ \E k \in 1..Len(node.body) :
          /\ node.body[k].node = "Assignment"
          /\ node.body[k].target.node = "ArrayAccess"
          /\ node.body[k].value.node = "ArrayAccess"
    /\ _body_decrements_variable(node.body,
                                 visitor_extract_loop_variable(node.condition))

\* medio := (lower + upper) div 2, or / 2
IsMidpoint(st) ==
    /\ st.node = "Assignment"
    /\ st.target.node = "Identifier"
    /\ st.value.node = "BinaryOperation"
    /\ st.value.operator \in {"div", "/"}
    /\ st.value.left.node = "BinaryOperation"
    /\ st.value.left.operator = "+"
    /\ st.value.left.left.node = "Identifier"
    /\ st.value.left.right.node = "Identifier"
    /\ st.value.right.node = "Number"
    /\ st.value.right.value = 2

\* updates_bounds: an assignment bound := medio operator ..., here or in the
\* branches of an if
RECURSIVE UpdatesBound(_, _, _, _)
UpdatesBound(statements, bound_name, operator, medio_name) ==
    \E k \in 1..Len(statements) :
        CASE statements[k].node = "Assignment" ->
                /\ statements[k].target.node = "Identifier"
                /\ statements[k].target.name = bound_name
                /\ statements[k].value.node = "BinaryOperation"
                /\ statements[k].value.operator = operator
                /\ statements[k].value.left.node = "Identifier"
                /\ statements[k].value.left.name = medio_name
          [] statements[k].node = "IfStatement" ->
                \/ UpdatesBound(statements[k].then_branch, bound_name, operator, medio_name)
                \/ UpdatesBound(statements[k].else_branch, bound_name, operator, medio_name)
          [] OTHER -> FALSE

\* midpoint is the first midpoint assignment of the body
BoundsNarrowed(body, midpoint) ==
    /\ UpdatesBound(body, midpoint.value.left.left.name, "+", midpoint.target.name)
    /\ UpdatesBound(body, midpoint.value.left.right.name, "-", midpoint.target.name)

_is_binary_search_while(node) ==
    /\ \E k \in 1..Len(node.body) : IsMidpoint(node.body[k])
    /\ BoundsNarrowed(node.body,
           node.body[Min({k \in 1..Len(node.body) : IsMidpoint(node.body[k])})])

\* what one argument of a recursive call tells about the reduction
ReductionOf(arg) ==
    IF arg.node # "BinaryOperation" THEN "unknown"
    ELSE IF arg.operator = "-" /\ arg.right.node = "Number" THEN "linear"
    ELSE IF /\ arg.operator \in {"/", "div"}
            /\ \/ arg.right.node = "Number" /\ arg.right.value >= 2
               \/ arg.left.node = "BinaryOperation" /\ arg.left.operator = "+"
    THEN "divide"
    ELSE "unknown"

FirstReduction(arguments, found) ==
    IF found = {} THEN "unknown" ELSE ReductionOf(arguments[Min(found)])

_analyze_recursive_call_arguments(call_node) ==
    FirstReduction(call_node.arguments,
                   {k \in 1..Len(call_node.arguments) :
                       ReductionOf(call_node.arguments[k]) # "unknown"})

\* The walk is a stack of pending work: a statement to visit, a statement
\* list to go through, and the decrements that follow the visit of a loop.
VisitItem(node) == [op |-> "visit", node |-> node]

ListItem(statements) == [op |-> "list", statements |-> statements]

LeaveLoop == [op |-> "leave_loop"]

LeaveLog == [op |-> "leave_log"]

\* generic_visit: the lists among body, then_branch, else_branch, procedures
generic_visit(node) ==
    (IF "body" \in DOMAIN node THEN <<ListItem(node.body)>> ELSE <<>>) \o
    (IF "then_branch" \in DOMAIN node THEN <<ListItem(node.then_branch)>> ELSE <<>>) \o
    (IF "else_branch" \in DOMAIN node THEN <<ListItem(node.else_branch)>> ELSE <<>>) \o
    (IF "procedures" \in DOMAIN node THEN <<ListItem(node.procedures)>> ELSE <<>>)

EnterLoop_without_maximum(v) == [v EXCEPT !.loop_depth = @ + 1]

\* loop_depth += 1 and the update of max_loop_depth
EnterLoop(v) ==
    [v EXCEPT !.loop_depth = @ + 1,
              !.max_loop_depth = IF v.loop_depth + 1 > @ THEN v.loop_depth + 1 ELSE @]

EnterLog(v) ==
    [v EXCEPT !.has_log_loop = TRUE,
              !.log_depth = @ + 1,
              !.max_log_depth = IF v.log_depth + 1 > @ THEN v.log_depth + 1 ELSE @]

\* the number of loops the statements start with
RECURSIVE LoopRun(_)
LoopRun(statements) ==
    IF statements # <<>> /\ Head(statements).node \in LoopNodes
    THEN 1 + LoopRun(Tail(statements))
    ELSE 0

Bodies_of(loops) == [k \in 1..Len(loops) |-> ListItem(loops[k].body)]

IsRecursiveCall(node, current_func_name) ==
    node.name = current_func_name \/ node.name = SELF

visit_CallStatement(v, node, current_func_name) ==
    [v EXCEPT
        !.recursive_calls =
            IF IsRecursiveCall(node, current_func_name) THEN @ + 1 ELSE @,
        !.recursive_calls_in_loop =
            IF IsRecursiveCall(node, current_func_name) /\ v.loop_depth > 0
            THEN @ + 1 ELSE @,
        !.recursion_type =
            IF IsRecursiveCall(node, current_func_name) /\ @ = "unknown"
            THEN _analyze_recursive_call_arguments(node) ELSE @,
        !.calls_in_loops =
            IF v.loop_depth > 0 /\ node.name # <<>>
            THEN @ \cup {LowerSeq(node.name)} ELSE @]

\* which branch of visit and _visit_statement_list the top of the stack takes
StepKind(item) ==
    IF item.op \in {"leave_loop", "leave_log"} THEN item.op
    ELSE IF item.op = "list"
    THEN (IF item.statements = <<>> THEN "list_end"
          ELSE IF LoopRun(item.statements) > 1 THEN "sequential_loops"
          ELSE "list_next")
    ELSE IF item.node.node = "ForLoop" THEN "for"
    ELSE IF item.node.node = "WhileLoop"
    THEN (IF _is_binary_search_while(item.node) \/ _is_log_while(item.node)
          THEN "log_while"
          ELSE IF _is_array_shift_while(item.node) THEN "shift_while"
          ELSE "for")
    ELSE IF item.node.node = "CallStatement" THEN "call"
    ELSE "generic"

\* <<visitor, stack>> after the top of the stack is worked off
Walk(v, pending, current_func_name) ==
    LET item == Head(pending)
        rest == Tail(pending)
        kind == StepKind(item)
    IN  CASE kind = "leave_loop" -> <<[v EXCEPT !.loop_depth = @ - 1], rest>>
          [] kind = "leave_log" -> <<[v EXCEPT !.log_depth = @ - 1], rest>>
          [] kind = "list_end" -> <<v, rest>>
          [] kind = "sequential_loops" ->
                <<EnterLoop(v),
                  Bodies_of(SubSeq(item.statements, 1, LoopRun(item.statements))) \o
                  <<LeaveLoop,
                    ListItem(SubSeq(item.statements, LoopRun(item.statements) + 1,
                                    Len(item.statements)))>> \o rest>>
          [] kind = "list_next" ->
                <<v, <<VisitItem(Head(item.statements)),
                       ListItem(Tail(item.statements))>> \o rest>>
          [] kind = "for" ->
                <<EnterLoop(v), generic_visit(item.node) \o <<LeaveLoop>> \o rest>>
          [] kind = "log_while" ->
                <<EnterLog(v), generic_visit(item.node) \o <<LeaveLog>> \o rest>>
          [] kind = "shift_while" -> <<v, generic_visit(item.node) \o rest>>
          [] kind = "call" ->
                <<visit_CallStatement(v, item.node, current_func_name), rest>>
          [] OTHER -> <<v, generic_visit(item.node) \o rest>>

\* the visitor when the stack has been worked off
RECURSIVE Walked(_, _, _)
Walked(v, pending, current_func_name) ==
    IF pending = <<>> THEN v
    ELSE Walked(Walk(v, pending, current_func_name)[1],
                Walk(v, pending, current_func_name)[2], current_func_name)

\* for stmt in body: visitor.visit(stmt, name)
VisitEach(body) == [k \in 1..Len(body) |-> VisitItem(body[k])]

(***************************************************************************)
(* Recurrence extractor: extract_generic_recurrence                        *)
(***************************************************************************)

\* the first procedure whose body holds a recursive call, else the last one
MainProcedure(procedures, Recursive) ==
    IF Recursive # {} THEN procedures[Min(Recursive)] ELSE procedures[Len(procedures)]

main_proc(prog) ==
    MainProcedure(prog.procedures,
        {k \in 1..Len(prog.procedures) :
            Walked(GenericASTVisitor, VisitEach(prog.procedures[k].body),
                   prog.procedures[k].name).recursive_calls > 0})

\* func_name after the search for the main procedure
FuncName(prog, given) ==
    IF prog.procedures # <<>> THEN main_proc(prog).name ELSE given

\* what the visitor is sent through
MainWalk(prog) ==
    IF prog.procedures # <<>> THEN VisitEach(main_proc(prog).body)
    ELSE <<VisitItem(prog)>>

PolyPart(degree) ==
    IF degree = 0 THEN <<>>
    ELSE IF degree = 1 THEN <<"n">>
    ELSE <<"n", "^">> \o ToDigits(degree)

LogPart(logp) ==
    IF logp = 0 THEN <<>>
    ELSE IF logp = 1 THEN <<"l", "o", "g", " ", "n">>
    ELSE <<"(", "l", "o", "g", " ", "n", ")", "^">> \o ToDigits(logp)

JoinParts(poly, logs) ==
    IF poly = <<>> /\ logs = <<>> THEN <<"1">>
    ELSE IF poly # <<>> /\ logs # <<>> THEN poly \o <<" ">> \o logs
    ELSE poly \o logs

_format_growth(degree, logp) == JoinParts(PolyPart(degree), LogPart(logp))

Divisor_by_convention(v) ==
    IF v.recursion_type = "divide" \/ v.recursive_calls >= 2 THEN 2 ELSE 1

\* b, the divisor of the recursive term
Divisor(v) ==
    IF v.recursion_type = "divide" THEN 2
    ELSE IF v.recursion_type = "linear" THEN 1
    ELSE IF v.recursive_calls >= 2 THEN 2
    ELSE 1

\* the work term when the main procedure has no loop of its own but calls
\* inside loops were recorded: the growth of the first procedure
AuxWorkTerm(prog, aux_visitor) ==
    IF aux_visitor.max_loop_depth > 0
    THEN _format_growth(aux_visitor.max_loop_depth, aux_visitor.max_log_depth)
    ELSE <<"n">>

WorkTerm(prog, v) ==
    IF v.max_loop_depth > 0 \/ v.max_log_depth > 0
    THEN _format_growth(v.max_loop_depth, v.max_log_depth)
    ELSE IF v.calls_in_loops # {}
    THEN (IF prog.procedures # <<>>
          THEN AuxWorkTerm(prog, Walked(GenericASTVisitor,
                                        VisitEach(prog.procedures[1].body),
                                        prog.procedures[1].name))
          ELSE <<"n">>)
    ELSE IF v.recursive_calls >= 2 THEN <<"n">>
    ELSE <<"1">>

RecursiveRecurrence(a, b, work_term) ==
    IF b = 1
    THEN <<"T", "(", "n", ")", " ", "=", " ">> \o ToDigits(a) \o <<"*", "T", "(", "n", "-", "1", ")", " ", "+", " ">> \o work_term
    ELSE <<"T", "(", "n", ")", " ", "=", " ">> \o ToDigits(a) \o <<"*", "T", "(", "n", "/">> \o ToDigits(b) \o <<")", " ", "+", " ">> \o work_term

IterativeRecurrence(v) ==
    <<"T", "(", "n", ")", " ", "=", " ">> \o _format_growth(v.max_loop_depth, v.max_log_depth) \o
    (IF v.calls_in_loops # {} /\ v.max_loop_depth > 0 THEN <<" ", "U+00D7", " ", "f", "_", "s", "u", "b", "r", "u", "t", "i", "n", "a", "(", "n", ")">> ELSE <<>>)

\* recurrence_str
RecurrenceOf(prog, v) ==
    IF v.recursive_calls > 0
    THEN RecursiveRecurrence(v.recursive_calls, Divisor(v), WorkTerm(prog, v))
    ELSE IterativeRecurrence(v)

\* the characters of ComplexityMeasure.to_notation
NotationChars(self, prefix) ==
    <<prefix, "(">> \o
    (IF self.exponential_base > 0
     THEN ToDigits(self.exponential_base) \o <<"^", "n">> \o
          (IF self.degree > 0 \/ self.log_power > 0 THEN <<" ">> ELSE <<>>)
     ELSE <<>>) \o
    (IF self.degree = 0 /\ self.log_power = 0
     THEN (IF self.exponential_base > 0 THEN <<>> ELSE <<"1">>)
     ELSE _format_growth(self.degree, self.log_power)) \o
    <<")">>

\* the CaseComplexity ComplexityEngine.analyze ends with
AnalyzedCase(prog) ==
    IF DetectRecursion(prog)
    THEN ApplyRecursionCase(StructuralCase(prog),
             recursion_case(DetectPatternOf(prog, TRUE)))
    ELSE StructuralCase(prog)

\* engine.analyze(ast_root), its three notations as texts
analyze(prog) ==
    [best_case    |-> NotationChars(AnalyzedCase(prog).best, OMEGA),
     worst_case   |-> NotationChars(AnalyzedCase(prog).worst, "O"),
     average_case |-> NotationChars(AnalyzedCase(prog).average, THETA)]

IsDigit(c) == \E k \in 1..10 : DigitChars[k] = c

DigitSet == {DigitChars[k] : k \in 1..10}

\* re.search of lit followed by ([0-9]+): the number of the first match, or
\* -1 when there is none
NumberAfter(s, lit) ==
    LET found == {i \in 0..(Len(s) - Len(lit) - 1) :
                     /\ Slice(s, i, i + Len(lit)) = lit
                     /\ IsDigit(s[i + Len(lit) + 1])}
    IN  IF found = {} THEN -1
        ELSE DigitsValue(Slice(s, Min(found) + Len(lit),
                               ScanWhile(s, Min(found) + Len(lit), DigitSet)))

ParsedDegree(s) ==
    IF NumberAfter(s, <<"n", "^">>) >= 0 THEN NumberAfter(s, <<"n", "^">>)
    ELSE IF \/ Contains(s, <<"n", " ", "l", "o", "g">>) \/ Contains(s, <<"n", " ", "*", " ", "l", "o", "g">>) \/ Contains(s, <<"n", "l", "o", "g">>)
    THEN 1
    ELSE IF Contains(s, <<"n">>) /\ ~Contains(s, <<"^">>) THEN 1
    ELSE 0

\* logp before the second search
FirstLogPower(s) ==
    IF NumberAfter(s, <<"n", "^">>) >= 0 THEN 0
    ELSE IF \/ Contains(s, <<"n", " ", "l", "o", "g">>) \/ Contains(s, <<"n", " ", "*", " ", "l", "o", "g">>) \/ Contains(s, <<"n", "l", "o", "g">>)
    THEN 1
    ELSE 0

ParsedLogPower(s) ==
    IF NumberAfter(s, <<"(", "l", "o", "g", " ", "n", ")", "^">>) >= 0 THEN NumberAfter(s, <<"(", "l", "o", "g", " ", "n", ")", "^">>)
    ELSE IF Contains(s, <<"l", "o", "g", " ", "n">>) /\ FirstLogPower(s) = 0 /\ ParsedDegree(s) = 0 THEN 1
    ELSE FirstLogPower(s)

parse_theta_caret_ignored(s) ==
    <<IF ParsedDegree(LowerSeq(s)) = 0 /\ Contains(LowerSeq(s), <<"n">>)
      THEN 1 ELSE ParsedDegree(LowerSeq(s)),
      ParsedLogPower(LowerSeq(s))>>

\* <<deg, logp>>
parse_theta(s) == <<ParsedDegree(LowerSeq(s)), ParsedLogPower(LowerSeq(s))>>

\* (d > e) or (d == e and lp > lq), on pairs <<deg, logp>>
Greater(p, q) == p[1] > q[1] \/ (p[1] = q[1] /\ p[2] > q[2])

\* func_structures has one entry, func_name.lower(): engine.analyze raises
\* AttributeError on every Procedure.  struct is found when that name is among
\* the lowered callees recorded in loops.
StructFound(v, name) == LowerSeq(name) \in v.calls_in_loops

\* <<max_deg, max_log>>
MaxCalled(v, name, structure) ==
    IF StructFound(v, name) /\ Greater(parse_theta(structure.average_case), <<0, 0>>)
    THEN parse_theta(structure.average_case)
    ELSE <<0, 0>>

Combined(v, called) == <<v.max_loop_depth + called[1], v.max_log_depth + called[2]>>

\* <<best_deg, best_log>>
BestCombined(v, name, structure, combined) ==
    IF StructFound(v, name) /\ Greater(combined, parse_theta(structure.best_case))
    THEN Combined(v, parse_theta(structure.best_case))
    ELSE combined

Notation(prefix, growth) == <<prefix, "(">> \o growth \o <<")">>

\* structural after the adjustment, combined being above <<0, 0>>
Overwritten(structure, combined, best) ==
    [best_case |->
        IF Greater(best, <<0, 0>>) /\ Greater(parse_theta(structure.best_case), <<0, 0>>)
        THEN Notation(OMEGA, _format_growth(best[1], best[2]))
        ELSE structure.best_case,
     worst_case |->
        IF Greater(combined, parse_theta(structure.average_case))
        THEN Notation("O", _format_growth(combined[1], combined[2]))
        ELSE structure.worst_case,
     average_case |->
        IF Greater(combined, parse_theta(structure.average_case))
        THEN Notation(THETA, _format_growth(combined[1], combined[2]))
        ELSE structure.average_case]

\* the calls in loops lead to an adjustment
Adjusts(v, name, structure) ==
    v.calls_in_loops # {} /\ Greater(MaxCalled(v, name, structure), <<0, 0>>)

Adjusted(v, name, structure) ==
    IF Adjusts(v, name, structure)
    THEN Overwritten(structure,
                     Combined(v, MaxCalled(v, name, structure)),
                     BestCombined(v, name, structure,
                                  Combined(v, MaxCalled(v, name, structure))))
    ELSE structure

CombinedRecurrence(v, name, structure) ==
    <<"T", "(", "n", ")", " ", "=", " ">> \o _format_growth(Combined(v, MaxCalled(v, name, structure))[1],
                              Combined(v, MaxCalled(v, name, structure))[2])

NoStructure == [best_case |-> <<>>, worst_case |-> <<>>, average_case |-> <<>>]

(***************************************************************************)
(* Recurrence extractor: the programs extracted from                       *)
(***************************************************************************)

Counting == Step(Names.x, "+")

Over_n(body) == ForLoop(Names.i, Number(1), Identifier(Names.n), body)

Halve(v) ==
    Assignment(Identifier(v), BinaryOperation("div", Identifier(v), Number(2)))

\* while n > 1 do body; n := n div 2
HalvingWhile(body) ==
    WhileLoop(BinaryOperation(">", Identifier(Names.n), Number(1)),
              body \o <<Halve(Names.n)>>)

\* while low <= high do mid := (low + high) div 2;
\*     if A[mid] < x then low := mid + 1 else high := mid - 1
NarrowingWhile ==
    WhileLoop(Compare("<=", Names.low, Names.high),
        <<Midpoint,
          IfStatement(
              BinaryOperation("<", ArrayAccess(Identifier(Names.A), Identifier(Names.mid)),
                              Identifier(Names.x)),
              <<Assignment(Identifier(Names.low),
                           BinaryOperation("+", Identifier(Names.mid), Number(1)))>>,
              <<Assignment(Identifier(Names.high),
                           BinaryOperation("-", Identifier(Names.mid), Number(1)))>>)>>)

\* while j > 0 do A[j] := A[j - 1]; j := j - 1
ShiftWhile ==
    WhileLoop(BinaryOperation(">", Identifier(Names.j), Number(0)),
        <<Assignment(ArrayAccess(Identifier(Names.A), Identifier(Names.j)),
                     ArrayAccess(Identifier(Names.A), LessOne(Names.j, 1))),
          Step(Names.j, "-")>>)

Callees == {Names.aux, Names.fib, Names.Fib, Names.sort, SELF}

CallsOf(callee) ==
    {CallStatement(callee, <<argument_>>) :
        argument_ \in {Identifier(Names.n), LessOne(Names.n, 1)}}

\* statement lists with loops and no call
LoopWork ==
    {<<>>, <<Counting>>, <<ShiftWhile>>, <<NarrowingWhile>>,
     <<HalvingWhile(<<>>)>>, <<HalvingWhile(<<Over_n(<<Counting>>)>>)>>,
     <<Over_n(<<Counting>>), Over_n(<<Counting>>)>>,
     <<Over_n(<<Counting>>), HalvingWhile(<<>>)>>,
     <<Over_n(<<HalvingWhile(<<>>)>>)>>,
     <<RepeatUntilLoop(<<Counting>>, Compare(">=", Names.x, Names.n))>>,
     <<IfStatement(Compare("<", Names.x, Names.n),
                   <<Over_n(<<Counting>>)>>, <<HalvingWhile(<<>>)>>)>>} \cup
    {<<Nest(Counting, k)>> : k \in 1..MaxLoopDepth}

\* statement lists with a call of callee inside loops
CallWorkOf(callee) ==
    UNION {{<<Nest(call, k)>> : k \in 1..MaxLoopDepth} \cup
           {<<HalvingWhile(<<call>>)>>,
            <<Over_n(<<Counting>>), Over_n(<<call>>)>>,
            <<Over_n(<<HalvingWhile(<<call>>)>>)>>} :
           call \in CallsOf(callee)}

CallWork == UNION {CallWorkOf(callee) : callee \in Callees}

Halved(v) == BinaryOperation("div", Identifier(v), Number(2))

\* the arguments of the recursive calls of a body
ArgumentLists ==
    {<<>>,
     <<LessOne(Names.n, 1)>>, <<Halved(Names.n)>>, <<Identifier(Names.n)>>,
     <<BinaryOperation("/", Identifier(Names.n), Number(1))>>,
     <<BinaryOperation("/", Compare("+", Names.low, Names.high), Identifier(Names.x))>>,
     <<LessOne(Names.n, 1), LessOne(Names.n, 2)>>,
     <<Halved(Names.n), Halved(Names.n)>>,
     <<Identifier(Names.n), Identifier(Names.n)>>,
     <<Identifier(Names.n), LessOne(Names.n, 1)>>,
     <<Identifier(Names.n), Halved(Names.n)>>,
     <<LessOne(Names.n, 1), Halved(Names.n)>>,
     <<Identifier(Names.n), Identifier(Names.n), Identifier(Names.n)>>}

RecursiveCalls(callee, arguments) ==
    [k \in 1..Len(arguments) |-> CallStatement(callee, <<arguments[k]>>)]

ExtBodies(callee) ==
    {work \o RecursiveCalls(callee, arguments) :
        work \in LoopWork \cup CallWork, arguments \in ArgumentLists}

MainNames == {Names.fib, Names.sort}

\* bodies of a main procedure that stands next to another procedure
PairedBodies(callee) ==
    {work \o RecursiveCalls(callee, arguments) :
        work \in {<<>>, <<Over_n(<<CallStatement(Names.aux, <<Identifier(Names.n)>>)>>)>>},
        arguments \in {<<>>, <<LessOne(Names.n, 1)>>,
                       <<Halved(Names.n), Halved(Names.n)>>}}

ExtProcedureLists ==
    UNION {{<<Procedure(name, body)>> : body \in ExtBodies(name)} \cup
           UNION {{<<Procedures.aux, Procedure(name, body)>>,
                   <<Procedure(name, body), Procedures.aux>>,
                   <<Procedure(name, body), Procedures.run>>} :
                  body \in PairedBodies(name)} :
           name \in MainNames}

\* a procedure the engine alone takes for recursive (it compares names without
\* case) before the main one, and a quicksort that calls itself inside loops
SpecialProcedureLists ==
    {<<Procedures.fib_upper, Procedure(Names.fib, work)>> :
        work \in CallWorkOf(Names.fib)} \cup
    {<<Procedure(Names.sort,
                 <<CallStatement(Names.partition, <<Identifier(Names.low)>>)>> \o work \o
                 RecursiveCalls(Names.sort, <<Halved(Names.n), Halved(Names.n)>>))>> :
        work \in CallWorkOf(Names.sort)}

ExtPrograms ==
    {Program(<<>>, procedures) :
        procedures \in ExtProcedureLists \cup SpecialProcedureLists} \cup
    {Program(body, <<>>) : body \in ExtBodies(SELF)}

(***************************************************************************)
(* Recurrence extractor: one call of extract_generic_recurrence            *)
(***************************************************************************)

ExtInit ==
    /\ ast_root \in ExtPrograms
    /\ extpc = "select"
    /\ func_name = SELF
    /\ visitor = GenericASTVisitor
    /\ stack = <<>>
    /\ recurrence_str = <<>>
    /\ structural = NoStructure

ExtIdle ==
    /\ ast_root = Program(<<>>, <<>>)
    /\ extpc = "idle"
    /\ func_name = SELF
    /\ visitor = GenericASTVisitor
    /\ stack = <<>>
    /\ recurrence_str = <<>>
    /\ structural = NoStructure

ExtFixed ==
    UNCHANGED ast_root /\ UNCHANGED <<lexvars, pipevars, solvevars, engvars, measvars, parsevars, treevars>>

\* the search for the main procedure and a fresh visitor
SelectMainProc ==
    /\ extpc = "select"
    /\ func_name' = FuncName(ast_root, func_name)
    /\ visitor' = GenericASTVisitor
    /\ stack' = MainWalk(ast_root)
    /\ extpc' = "walk"
    /\ UNCHANGED <<recurrence_str, structural>>
    /\ ExtFixed

\* the walk is at a step of one of the given kinds
Visiting(kinds) ==
    /\ extpc = "walk"
    /\ stack # <<>>
    /\ StepKind(Head(stack)) \in kinds

WalkFixed == UNCHANGED <<extpc, func_name, recurrence_str, structural>> /\ ExtFixed

\* _visit_statement_list: the next statement of a list, or its end
VisitStatementList ==
    /\ Visiting({"list_next", "list_end"})
    /\ visitor' = Walk(visitor, stack, func_name)[1]
    /\ stack' = Walk(visitor, stack, func_name)[2]
    /\ WalkFixed

\* _visit_statement_list: a run of consecutive loops
VisitSequentialLoops ==
    /\ Visiting({"sequential_loops"})
    /\ visitor' = Walk(visitor, stack, func_name)[1]
    /\ stack' = Walk(visitor, stack, func_name)[2]
    /\ WalkFixed

\* visit_ForLoop, also for a while that is neither logarithmic nor a shift
VisitForLoop ==
    /\ Visiting({"for"})
    /\ visitor' = Walk(visitor, stack, func_name)[1]
    /\ stack' = Walk(visitor, stack, func_name)[2]
    /\ WalkFixed

\* visit_WhileLoop: a binary search or a halving loop
VisitLogWhile ==
    /\ Visiting({"log_while"})
    /\ visitor' = Walk(visitor, stack, func_name)[1]
    /\ stack' = Walk(visitor, stack, func_name)[2]
    /\ WalkFixed

\* visit_WhileLoop: an array shift
VisitShiftWhile ==
    /\ Visiting({"shift_while"})
    /\ visitor' = Walk(visitor, stack, func_name)[1]
    /\ stack' = Walk(visitor, stack, func_name)[2]
    /\ WalkFixed

\* visit_CallStatement
VisitCallStatement ==
    /\ Visiting({"call"})
    /\ visitor' = Walk(visitor, stack, func_name)[1]
    /\ stack' = Walk(visitor, stack, func_name)[2]
    /\ WalkFixed

\* generic_visit of any other node
GenericVisit ==
    /\ Visiting({"generic"})
    /\ visitor' = Walk(visitor, stack, func_name)[1]
    /\ stack' = Walk(visitor, stack, func_name)[2]
    /\ WalkFixed

\* loop_depth -= 1 after the body of a loop or of a run
LeaveForLoop ==
    /\ Visiting({"leave_loop"})
    /\ visitor' = Walk(visitor, stack, func_name)[1]
    /\ stack' = Walk(visitor, stack, func_name)[2]
    /\ WalkFixed

\* log_depth -= 1 after the body of a logarithmic while
LeaveLogWhile ==
    /\ Visiting({"leave_log"})
    /\ visitor' = Walk(visitor, stack, func_name)[1]
    /\ stack' = Walk(visitor, stack, func_name)[2]
    /\ WalkFixed

BuildRecurrence ==
    /\ extpc = "walk"
    /\ stack = <<>>
    /\ recurrence_str' = RecurrenceOf(ast_root, visitor)
    /\ extpc' = "structure"
    /\ UNCHANGED <<func_name, visitor, stack, structural>>
    /\ ExtFixed

AnalyzeStructural ==
    /\ extpc = "structure"
    /\ structural' = analyze(ast_root)
    /\ extpc' = "adjust"
    /\ UNCHANGED <<func_name, visitor, stack, recurrence_str>>
    /\ ExtFixed

AdjustForCalls ==
    /\ extpc = "adjust"
    /\ visitor.calls_in_loops # {}
    /\ structural' = Adjusted(visitor, func_name, analyze(ast_root))
    /\ recurrence_str' =
          IF Adjusts(visitor, func_name, analyze(ast_root))
          THEN CombinedRecurrence(visitor, func_name, analyze(ast_root))
          ELSE recurrence_str
    /\ extpc' = "done"
    /\ UNCHANGED <<func_name, visitor, stack>>
    /\ ExtFixed

ReturnUnadjusted ==
    /\ extpc = "adjust"
    /\ visitor.calls_in_loops = {}
    /\ extpc' = "done"
    /\ UNCHANGED <<func_name, visitor, stack, recurrence_str, structural>>
    /\ ExtFixed

ExtNext ==
    \/ SelectMainProc
    \/ VisitStatementList
    \/ VisitSequentialLoops
    \/ VisitForLoop
    \/ VisitLogWhile
    \/ VisitShiftWhile
    \/ VisitCallStatement
    \/ GenericVisit
    \/ LeaveForLoop
    \/ LeaveLogWhile
    \/ BuildRecurrence
    \/ AnalyzeStructural
    \/ AdjustForCalls
    \/ ReturnUnadjusted

-----------------------------------------------------------------------------
(***************************************************************************)
(* Recursion tree builder                                                  *)
(***************************************************************************)

\* the depth at which _build_tree_recursive stops
max_depth == 5

NoParams == [tag |-> "None"]

\* int(a_str.replace("*", "")): int("") raises ValueError
TreeCoefficient(a_str) ==
    IF a_str = <<>> THEN 1
    ELSE IF SelectSeq(a_str, LAMBDA c : c # "*") = <<>> THEN -1
    ELSE DigitsValue(SelectSeq(a_str, LAMBDA c : c # "*"))

TreeParams(a, b, fn) ==
    IF a < 0 THEN ValueError
    ELSE IF b <= 1 THEN NoParams
    ELSE [tag |-> "ok", a |-> a, b |-> b, fn |-> fn]

TreeMatch(match) ==
    IF match = <<>> THEN NoParams
    ELSE TreeParams(TreeCoefficient(match[1]), DigitsValue(match[2]), match[3])

\* the pattern is the one of the solver's master theorem; the spaces were
\* removed, so fn_str.strip() changes nothing
_parse_recurrence(recurrence) == TreeMatch(MasterSearch(RemoveSpaces(recurrence)))

RecursionTreeNode(label, level, cost, children, total_cost) ==
    [label |-> label, level |-> level, cost |-> cost, children |-> children,
     total_cost |-> total_cost]

\* the text between "(" and ")" of a label
CurrentN(label) ==
    Slice(label, Min({k \in 1..Len(label) : label[k] = "("}),
          Min({k \in 1..Len(label) : label[k] = ")"}) - 1)

\* the text after the "/" of n/divisor
DivisorText(current_n) ==
    Slice(current_n, Min({k \in 1..Len(current_n) : current_n[k] = "/"}),
          Len(current_n))

IsInt(t) == t # <<>> /\ \A k \in 1..Len(t) : t[k] \in DecimalDigits

T_of_n_over(divisor) == <<"T", "(", "n", "/">> \o ToDigits(divisor) \o <<")">>

child_label(label, b) ==
    IF /\ Contains(label, <<"n", "/">>)
       /\ Cardinality({k \in 1..Len(CurrentN(label)) : CurrentN(label)[k] = "/"}) = 1
       /\ IsInt(DivisorText(CurrentN(label)))
    THEN T_of_n_over(DigitsValue(DivisorText(CurrentN(label))) * b)
    ELSE T_of_n_over(b)

_calculate_node_cost_per_node(level, a, fn) == <<"1", " ", "*", " ">> \o fn

\* f"{num_nodes} * {fn}"
_calculate_node_cost(level, a, fn) ==
    ToDigits(IF level > 0 THEN a ^ level ELSE 1) \o <<" ", "*", " ">> \o fn

RECURSIVE _build_tree_recursive(_, _, _, _, _, _)
_build_tree_recursive(label, level, a, b, fn, depth) ==
    IF level >= depth
    THEN RecursionTreeNode(label, level, <<"O", "(", "1", ")">>, <<>>, <<"O", "(", "1", ")">>)
    ELSE RecursionTreeNode(label, level, fn,
             [i \in 1..a |->
                 _build_tree_recursive(child_label(label, b), level + 1, a, b, fn, depth)],
             _calculate_node_cost(level, a, fn))

\* the nodes in the order traverse meets them
RECURSIVE Traverse(_)
RECURSIVE TraverseAll(_)
Traverse(node) == <<node>> \o TraverseAll(node.children)

TraverseAll(nodes) ==
    IF nodes = <<>> THEN <<>> ELSE Traverse(Head(nodes)) \o TraverseAll(Tail(nodes))

\* levels_dict[level]: cost and total_cost of the first node met at the
\* level, the labels of all of them
LevelEntry(nodes, level) ==
    [level |-> level,
     nodes |-> [k \in 1..Len(nodes) |-> nodes[k].label],
     cost |-> nodes[1].cost,
     total_cost |-> nodes[1].total_cost]

LevelsOf(nodes, found) ==
    [k \in 1..Cardinality(found) |->
        LevelEntry(SelectSeq(nodes, LAMBDA node : node.level = k - 1), k - 1)]

\* the levels met are 0 .. the deepest one, so sorted(keys) is that range
_build_levels(tree) ==
    LevelsOf(Traverse(tree), {Traverse(tree)[k].level : k \in 1..Len(Traverse(tree))})

RECURSIVE _calculate_tree_height(_)
_calculate_tree_height(node) ==
    IF node.children = <<>> THEN node.level
    ELSE Max({node.level} \cup
             {_calculate_tree_height(node.children[k]) : k \in 1..Len(node.children)})

NoNode == RecursionTreeNode(<<>>, 0, <<>>, <<>>, <<>>)

\* the local costs of the recurrences handed to the builder
TreeWorkTerms ==
    {_format_growth(degree, logp) : degree \in 0..MaxTreeDegree, logp \in 0..1}

TreeRecurrences ==
    {RecursiveRecurrence(a, b, work_term) :
        a \in 1..MaxBranching, b \in 1..MaxTreeDivisor, work_term \in TreeWorkTerms} \cup
    {<<"T", "(", "n", ")", " ", "=", " ">> \o work_term : work_term \in TreeWorkTerms} \cup
    {<<"T", "(", "n", ")", " ", "=", " ", "T", "(", "n", "/", "2", ")", " ", "+", " ">> \o work_term : work_term \in TreeWorkTerms}

TreeInit ==
    /\ tree_relation \in TreeRecurrences
    /\ treepc = "parse"
    /\ tree_params = NoParams
    /\ root = NoNode
    /\ levels = <<>>
    /\ height = 0

TreeIdle ==
    /\ tree_relation = <<>>
    /\ treepc = "idle"
    /\ tree_params = NoParams
    /\ root = NoNode
    /\ levels = <<>>
    /\ height = 0

TreeFixed ==
    UNCHANGED tree_relation /\ UNCHANGED <<lexvars, pipevars, solvevars, engvars, measvars, parsevars, extvars>>

ParseRecurrence ==
    /\ treepc = "parse"
    /\ tree_params' = _parse_recurrence(tree_relation)
    /\ treepc' = IF _parse_recurrence(tree_relation).tag = "ok" THEN "tree" ELSE "none"
    /\ UNCHANGED <<root, levels, height>>
    /\ TreeFixed

BuildTree ==
    /\ treepc = "tree"
    /\ root' = _build_tree_recursive(<<"T", "(", "n", ")">>, 0, tree_params.a, tree_params.b,
                                     tree_params.fn, max_depth)
    /\ treepc' = "levels"
    /\ UNCHANGED <<tree_params, levels, height>>
    /\ TreeFixed

BuildLevels ==
    /\ treepc = "levels"
    /\ levels' = _build_levels(root)
    /\ treepc' = "height"
    /\ UNCHANGED <<tree_params, root, height>>
    /\ TreeFixed

CalculateTreeHeight ==
    /\ treepc = "height"
    /\ height' = _calculate_tree_height(root)
    /\ treepc' = "built"
    /\ UNCHANGED <<tree_params, root, levels>>
    /\ TreeFixed

TreeNext ==
    \/ ParseRecurrence
    \/ BuildTree
    \/ BuildLevels
    \/ CalculateTreeHeight

-----------------------------------------------------------------------------
(***************************************************************************)
(* Specifications                                                          *)
(***************************************************************************)

LexSpecInit == LexInit /\ PipeIdle /\ SolveIdle /\ EngIdle /\ MeasIdle /\ ParseIdle /\ ExtIdle /\ TreeIdle

LexSpec == LexSpecInit /\ [][LexNext]_vars

PipeSpecInit == PipeInit /\ LexIdle /\ SolveIdle /\ EngIdle /\ MeasIdle /\ ParseIdle /\ ExtIdle /\ TreeIdle

PipeSpec == PipeSpecInit /\ [][PipeNext]_vars

SolveSpecInit == SolveInit /\ LexIdle /\ PipeIdle /\ EngIdle /\ MeasIdle /\ ParseIdle /\ ExtIdle /\ TreeIdle

SolveSpec == SolveSpecInit /\ [][SolveNext]_vars

EngSpecInit == EngInit /\ LexIdle /\ PipeIdle /\ SolveIdle /\ MeasIdle /\ ParseIdle /\ ExtIdle /\ TreeIdle

EngSpec == EngSpecInit /\ [][EngNext]_vars

MeasSpecInit == MeasInit /\ LexIdle /\ PipeIdle /\ SolveIdle /\ EngIdle /\ ParseIdle /\ ExtIdle /\ TreeIdle

MeasSpec == MeasSpecInit /\ [][MeasNext]_vars

ParseSpecInit == ParseInit /\ LexIdle /\ PipeIdle /\ SolveIdle /\ EngIdle /\ MeasIdle /\ ExtIdle /\ TreeIdle

ParseSpec == ParseSpecInit /\ [][ParseNext]_vars

ExtSpecInit == ExtInit /\ LexIdle /\ PipeIdle /\ SolveIdle /\ EngIdle /\ MeasIdle /\ ParseIdle /\ TreeIdle

ExtSpec == ExtSpecInit /\ [][ExtNext]_vars

TreeSpecInit == TreeInit /\ LexIdle /\ PipeIdle /\ SolveIdle /\ EngIdle /\ MeasIdle /\ ParseIdle /\ ExtIdle

TreeSpec == TreeSpecInit /\ [][TreeNext]_vars

-----------------------------------------------------------------------------
(***************************************************************************)
(* Properties                                                              *)
(***************************************************************************)

\* C1: for a source without an unterminated string literal, every iteration
\* of the scanning loop strictly increases the scan index (so each character,
\* carriage returns included, is consumed and tokenize terminates), and the
\* returned sequence ends with exactly one EOF token, its last element.
C1_ScanIndexAdvances ==
    [][(iterations' = iterations + 1 /\ lexpc' = "scan") => idx' > idx]_vars

\* C2: one call of run invokes the corrector at most once and the parser at
\* most twice; a second parse happens only after a ParserError or LexerError
\* of the first parse with correction enabled, a corrector present and a
\* confidence strictly above 0.5; and any exception that leaves run is the
\* error of the first parse.
C2_RetryOnceOriginalError ==
    /\ corrector_calls <= 1
    /\ parser_calls <= 2
    /\ parser_calls = 2 =>
          /\ first_error.type \in {"ParserError", "LexerError"}
          /\ first_error.origin = "parse1"
          /\ config.enable_grammar_correction
          /\ config.has_corrector
          /\ corrector_calls = 1
          /\ confidence > 5
    /\ pipepc = "raised" =>
          /\ raised.origin = "parse1"
          /\ raised.type = parse_outcome[run_source]
    /\ pipepc = "returned" => raised = NoError

\* C2 witness: the corrector answered with confidence exactly 0.5 and run
\* raised without a second parse; and a second parse failed.
C2_Witness ==
    /\ pipepc = "raised"
    /\ corrector_calls = 1
    /\ confidence = 5
    /\ parser_calls = 1

\* What solve returned, seen from the states after the master handler ran.
MasterDeclined ==
    \/ solvepc = "substitution"
    \/ solvepc = "done" /\ solution.tag = "None"
    \/ solvepc = "done" /\ solution.tag = "Solution"
                        /\ solution.justification = "telescoping"

MasterAnswered(theta) ==
    /\ solvepc = "done"
    /\ solution.tag = "Solution"
    /\ solution.justification # "telescoping"
    /\ solution.theta = theta

SolveAnswered(theta) ==
    solvepc = "done" /\ solution.tag = "Solution" /\ solution.theta = theta

C5Expected(position, a, b, d) ==
    IF position = "below" THEN MasterAnswered("Theta(" \o CriticalPower(a, b) \o ")")
    ELSE IF position = "equal"
    THEN MasterAnswered("Theta(" \o BalancedPower(d) \o " log n)")
    ELSE IF Regular(a, b, d)
    THEN MasterAnswered("Theta(n^" \o Join(FloatRepr(d)) \o ")")
    ELSE MasterDeclined

C5Claim(params) ==
    (/\ params.tag = "ok"
     /\ params.a >= 1
     /\ params.b > 1
     /\ ~(params.a = 2 /\ params.b = 2 /\ params.d = One))
    => C5Expected(CompareToCritical(params.a, params.b, params.d),
                  params.a, params.b, params.d)

\* C5: whenever the master handler parses the recurrence into (a, b, d) with
\* a >= 1, b > 1 and (a, b, d) # (2, 2, 1), its result follows the three
\* cases of the Master theorem: d below c = log_b(a) gives Theta(n^c), d
\* equal to c gives Theta(n^d log n), d above c gives Theta(n^d) when
\* a < b^d and no result otherwise.
C5_MasterCases ==
    solvepc \in {"substitution", "done", "raised"}
    => C5Claim(_parse_master_params(relation.recurrence))

\* C6: solve and its handlers never raise: every call ends with a solution
\* or with the no-match result, whatever coefficient text stands before
\* T(n/b).
C6_SolveNeverRaises == solvepc # "raised"

LinearPlusN ==
    <<"T", "(", "n", ")", "=", "T", "(", "n", "-", "1", ")", "+", "n">>

LinearPlusConstant ==
    <<"T", "(", "n", ")", "=", "T", "(", "n", "-", "1", ")", "+", "1">>

\* C7: solve answers Theta(n) for T(n)=T(n-1)+<constant> and Theta(n^2) for
\* T(n)=T(n-1)+n, with or without spaces in the text.
C7_LinearRecurrences ==
    (solvepc = "done" /\ relation.identifier = <<"T">>) =>
        /\ RemoveSpaces(relation.recurrence) = LinearPlusN
              => SolveAnswered("Theta(n^2)")
        /\ RemoveSpaces(relation.recurrence) = LinearPlusConstant
              => SolveAnswered("Theta(n)")

HalvingPlusOne ==
    <<"T", "(", "n", ")", "=", "T", "(", "n", "/", "2", ")", "+", "1">>

FourHalvesPlusSquare ==
    <<"T", "(", "n", ")", "=", "4", "*", "T", "(", "n", "/", "2", ")", "+",
      "n", "^", "2">>

\* C8: solve answers Theta(log n) for T(n)=T(n/2)+1 and Theta(n^2 log n) for
\* T(n)=4*T(n/2)+n^2: the balanced case prints n^d log n and no polynomial
\* factor when d = 0.
C8_BalancedExamples ==
    (solvepc = "done" /\ relation.identifier = <<"T">>) =>
        /\ relation.recurrence = HalvingPlusOne
              => SolveAnswered("Theta(log n)")
        /\ relation.recurrence = FourHalvesPlusSquare
              => SolveAnswered("Theta(n^2 log n)")

\* the IfStatement nodes of a statement list, at any depth
RECURSIVE IfStatementsIn(_)
IfStatementsIn(statements) ==
    UNION {CASE statements[k].node = "IfStatement" ->
                    {statements[k]} \cup IfStatementsIn(statements[k].then_branch)
                                    \cup IfStatementsIn(statements[k].else_branch)
             [] statements[k].node \in {"ForLoop", "WhileLoop", "RepeatUntilLoop"} ->
                    IfStatementsIn(statements[k].body)
             [] OTHER -> {}
           : k \in 1..Len(statements)}

ProgramIfs(prog) ==
    IfStatementsIn(prog.body) \cup
    UNION {IfStatementsIn(prog.procedures[k].body) : k \in 1..Len(prog.procedures)}

WorstCovers(if_case, then_case, else_case) ==
    /\ dominates(if_case.worst, then_case.worst)
    /\ dominates(if_case.worst, else_case.worst)

Analyzed == engpc \in {"detect", "recursion", "report", "done"}

\* C3: for every IfStatement of the analyzed program, the worst measure of
\* the whole statement dominates the worst measure of the then-branch alone
\* and of the else-branch alone (an empty else branch is constant); when the
\* program is one such statement, this is the worst case the fold holds.
C3_IfWorstDominatesBranches ==
    Analyzed =>
        /\ \A s \in ProgramIfs(program) :
              WorstCovers(_analyze_if(s), _analyze_block(s.then_branch),
                          _analyze_block(s.else_branch))
        /\ (/\ engpc = "detect"
            /\ program.procedures = <<>>
            /\ Len(program.body) = 1
            /\ program.body[1].node = "IfStatement")
           => WorstCovers(program_case, _analyze_block(program.body[1].then_branch),
                          _analyze_block(program.body[1].else_branch))

StrictlyAbove(m, other) == dominates(m, other) /\ ~dominates(other, m)

\* C3 witness: the analyzed program is one IfStatement whose else-branch has
\* a strictly higher worst measure than its then-branch, which is not
\* constant.
C3_Witness ==
    /\ engpc = "detect"
    /\ program.procedures = <<>>
    /\ Len(program.body) = 1
    /\ program.body[1].node = "IfStatement"
    /\ StrictlyAbove(_analyze_block(program.body[1].else_branch).worst,
                     _analyze_block(program.body[1].then_branch).worst)
    /\ _analyze_block(program.body[1].then_branch).worst.degree > 0

CaseCovers(case, other) ==
    /\ dominates(case.best, other.best)
    /\ dominates(case.worst, other.worst)
    /\ dominates(case.average, other.average)

\* C4: when recursion is detected, each of the best, worst and average
\* measures analyze reports dominates the measure the structural fold over
\* the body and the procedures had before the override.
C4_OverrideNeverLowers ==
    (engpc \in {"report", "done"} /\ has_recursion)
    => CaseCovers(program_case, StructuralCase(program))

\* C4 witness: recursion was detected, the override raised the best case and
\* the structural worst case is strictly above the override's.
C4_Witness ==
    /\ engpc = "done"
    /\ has_recursion
    /\ StrictlyAbove(recursion_case(recursive_pattern).best,
                     StructuralCase(program).best)
    /\ StrictlyAbove(StructuralCase(program).worst,
                     recursion_case(recursive_pattern).worst)

BinarySearchProgram ==
    Program(<<WhileLoop(BinaryOperation("and", Compare("<=", Names.low, Names.high),
                                        NotFound),
                        BinarySearchBody)>>,
            <<>>)

\* C9: for the iterative binary search (a while loop whose condition joins a
\* range comparison and found = F with `and`, and whose body sets found
\* inside an if while narrowing the range around the midpoint) analyze
\* reports the best case Omega(1) and the worst case O(log n).
C9_BinarySearchLogarithmic ==
    (engpc = "done" /\ program = BinarySearchProgram)
    => /\ result.best_case = OMEGA \o "(1)"
       /\ result.worst_case = "O(log n)"

AllExponential(res) ==
    /\ res.best_case = OMEGA \o "(2^n)"
    /\ res.worst_case = "O(2^n)"
    /\ res.average_case = THETA \o "(2^n)"

\* C10: for the Fibonacci procedure (two self-calls, no loop, no partition, a
\* leading if that returns in its then-branch), analyze reports 2^n as best,
\* worst and average case, with the two calls as call statements and with
\* the two calls inside the returned expression.
C10_FibonacciExponential ==
    (engpc = "done" /\ program.body = <<>>)
    => /\ program.procedures = <<Procedures.fib_calls>> => AllExponential(result)
       /\ program.procedures = <<Procedures.fib_return>> => AllExponential(result)

\* the number of input-bounded for-loops on the single path of a perfect
\* nest (for-loops holding exactly one statement, down to a body of simple
\* statements); a for-loop between two literals counts for nothing; -1 when
\* the statements are not such a nest
RECURSIVE NestDegree(_)
NestDegree(statements) ==
    IF \A k \in 1..Len(statements) :
           statements[k].node \in {"Assignment", "CallStatement", "ReturnStatement"}
    THEN 0
    ELSE IF Len(statements) = 1 /\ statements[1].node = "ForLoop"
    THEN (IF NestDegree(statements[1].body) < 0 THEN -1
          ELSE IF /\ statements[1].stop.node = "Identifier"
                  /\ statements[1].stop.name # statements[1].iterator
          THEN NestDegree(statements[1].body) + 1
          ELSE IF /\ statements[1].stop.node = "Number"
                  /\ statements[1].start.node = "Number"
          THEN NestDegree(statements[1].body)
          ELSE -1)
    ELSE -1

Polynomial(k) ==
    IF k = 0 THEN "(1)" ELSE IF k = 1 THEN "(n)" ELSE "(n^" \o Join(ToDigits(k)) \o ")"

\* C11: for a program without procedures whose body is a perfect nest of k
\* for-loops bounded by an input identifier around simple statements (k = 0:
\* the empty program or simple statements only), analyze reports Omega, O
\* and Theta of n^k, written (1) for k = 0 and (n) for k = 1; a for-loop
\* between two literals adds nothing to k.
C11_NestedForDegree ==
    (engpc = "done" /\ program.procedures = <<>> /\ NestDegree(program.body) >= 0)
    => /\ result.best_case = OMEGA \o Polynomial(NestDegree(program.body))
       /\ result.worst_case = "O" \o Polynomial(NestDegree(program.body))
       /\ result.average_case = THETA \o Polynomial(NestDegree(program.body))

\* C11 witness: three nested input-bounded for-loops were analyzed.
C11_Witness ==
    /\ engpc = "done"
    /\ program.procedures = <<>>
    /\ NestDegree(program.body) = 3
    /\ result.worst_case = "O(n^3)"

\* a for-loop between two literals inside two input-bounded for-loops was
\* analyzed
C11_LiteralLoopAnalyzed ==
    /\ engpc = "done"
    /\ program =
          Program(<<Nest(ForLoop(Names.i, Number(1), Number(1), <<Step(Names.x, "+")>>),
                         2)>>, <<>>)
    /\ result.worst_case = "O(n^2)"

\* the exponential, the polynomial and the logarithmic factor of a measure
ExponentialFactor(m) == Join(ToDigits(m.exponential_base)) \o "^n"

PolynomialFactor(m) == IF m.degree = 1 THEN "n" ELSE "n^" \o Join(ToDigits(m.degree))

LogarithmicFactor(m) ==
    IF m.log_power = 1 THEN "log n" ELSE "(log n)^" \o Join(ToDigits(m.log_power))

\* the text the claim gives for a measure that is not the zero measure
NotationBody(m) ==
    CASE m.exponential_base > 0 /\ m.degree > 0 /\ m.log_power > 0 ->
            ExponentialFactor(m) \o " " \o PolynomialFactor(m) \o " " \o LogarithmicFactor(m)
      [] m.exponential_base > 0 /\ m.degree > 0 /\ m.log_power = 0 ->
            ExponentialFactor(m) \o " " \o PolynomialFactor(m)
      [] m.exponential_base > 0 /\ m.degree = 0 /\ m.log_power > 0 ->
            ExponentialFactor(m) \o " " \o LogarithmicFactor(m)
      [] m.exponential_base > 0 /\ m.degree = 0 /\ m.log_power = 0 ->
            ExponentialFactor(m)
      [] m.exponential_base = 0 /\ m.degree > 0 /\ m.log_power > 0 ->
            PolynomialFactor(m) \o " " \o LogarithmicFactor(m)
      [] m.exponential_base = 0 /\ m.degree > 0 /\ m.log_power = 0 ->
            PolynomialFactor(m)
      [] OTHER -> LogarithmicFactor(m)

ZeroMeasure == ComplexityMeasure(0, 0, 0)

\* C12: to_notation(prefix) returns prefix(1) for the measure with degree,
\* log_power and exponential_base all 0, and otherwise the prefix followed
\* by the factors that are present, in the order exponential, polynomial,
\* logarithmic, separated by single spaces and enclosed in parentheses;
\* degree 2 alone gives O(n^2), degree 1 with log_power 1 gives Theta(n log n).
C12_NotationFormat ==
    (measpc = "returned" /\ returned.method = "to_notation")
    => /\ receiver = ZeroMeasure => returned.value.text = returned.value.prefix \o "(1)"
       /\ receiver # ZeroMeasure =>
             returned.value.text =
                 returned.value.prefix \o "(" \o NotationBody(receiver) \o ")"
       /\ (receiver = ComplexityMeasure(2, 0, 0) /\ returned.value.prefix = "O")
             => returned.value.text = "O(n^2)"
       /\ (receiver = ComplexityMeasure(1, 1, 0) /\ returned.value.prefix = THETA)
             => returned.value.text = THETA \o "(n log n)"

\* C12 witness: to_notation returned for a measure with all three factors.
C12_Witness ==
    /\ measpc = "returned"
    /\ returned.method = "to_notation"
    /\ receiver = ComplexityMeasure(2, 1, 2)
    /\ returned.value.text = "O(2^n n^2 log n)"

Polynomials(a, b) == a.exponential_base = 0 /\ b.exponential_base = 0

\* C13: for two measures a and b without exponential base: when the degrees
\* differ, a.dominates(b) holds exactly when a has the larger degree, so
\* exactly one of the two directions holds; when the degrees are equal the
\* measure with the larger log_power dominates, and both directions hold
\* only when log_power is equal too.
C13_DominanceOrder ==
    (measpc = "returned" /\ returned.method = "dominates"
        /\ Polynomials(receiver, argument))
    => /\ receiver.degree # argument.degree =>
             /\ returned.value = (receiver.degree > argument.degree)
             /\ dominates(argument, receiver) = ~returned.value
       /\ (receiver.degree = argument.degree
              /\ receiver.log_power > argument.log_power) => returned.value
       /\ (returned.value /\ dominates(argument, receiver)) =>
             /\ receiver.degree = argument.degree
             /\ receiver.log_power = argument.log_power

\* C13 witness: dominates returned FALSE for equal degrees and a smaller
\* log_power of the receiver.
C13_Witness ==
    /\ measpc = "returned"
    /\ returned.method = "dominates"
    /\ Polynomials(receiver, argument)
    /\ receiver.degree = argument.degree
    /\ receiver.degree > 0
    /\ receiver.log_power < argument.log_power
    /\ returned.value = FALSE

\* lexemes of operators before normalisation: the comparison glyphs and
\* the assignment arrows other than the canonical one
UnnormalizedLexemes == {LEQ, GEQ, NEQ, ":=", UPDOWN, LEFTARROW, "<-"}

\* C15: no operator token the lexer produces has the lexeme of a comparison glyph
\* (less-or-equal, greater-or-equal, not-equal sign) or of an assignment
\* arrow other than the canonical one; a source that is one such glyph or
\* arrow yields the canonical lexeme (<=, >=, <> or the canonical arrow).
C15_CanonicalLexemes ==
    /\ \A k \in 1..Len(tokens) :
          tokens[k].kind = "SYMBOL" => tokens[k].lexeme \notin UnnormalizedLexemes
    /\ (lexpc = "done" /\ source \in {<<LEQ>>, <<"<", "=">>}) => tokens[1].lexeme = "<="
    /\ (lexpc = "done" /\ source \in {<<GEQ>>, <<">", "=">>}) => tokens[1].lexeme = ">="
    /\ (lexpc = "done" /\ source \in {<<NEQ>>, <<"<", ">">>}) => tokens[1].lexeme = "<>"
    /\ (lexpc = "done"
          /\ source \in {<<ARROW>>, <<UPDOWN>>, <<LEFTARROW>>, <<":", "=">>, <<"<", "-">>})
       => tokens[1].lexeme = ARROW

\* the source ends inside a string literal: reading it character by
\* character, a quote outside a comment opens a literal, the next quote
\* closes it, and the comment marker hides the rest of its line
RECURSIVE EndsInsideString(_, _, _)
EndsInsideString(src, i, mode) ==
    IF i > Len(src) THEN mode = "string"
    ELSE EndsInsideString(src, i + 1,
             CASE mode = "code" /\ src[i] = COMMENTMARK -> "comment"
               [] mode = "code" /\ src[i] = "\"" -> "string"
               [] mode = "comment" /\ src[i] = "\n" -> "code"
               [] mode = "string" /\ src[i] = "\"" -> "code"
               [] OTHER -> mode)

UnterminatedString(src) == EndsInsideString(src, 1, "code")

\* C16: tokenize raises LexerError exactly for the sources that open a
\* string literal outside a comment and never close it: it has raised by
\* the time the scanning loop has run once per character, it raises for no
\* other source, and a character the lexer has no case for becomes a
\* one-character SYMBOL token.
C16_OnlyUnterminatedStringRaises ==
    /\ lexpc = "error" => UnterminatedString(source)
    /\ lexpc = "done" => ~UnterminatedString(source)
    /\ (UnterminatedString(source) /\ iterations > Len(source)) => lexpc = "error"
    /\ (lexpc = "done" /\ source = <<"@">>)
       => tokens = <<Token("SYMBOL", "@", 1, 1), Token("EOF", "", 1, 2)>>

-----------------------------------------------------------------------------
(* Parser: what the statement lines of a source are said to parse to *)

\* ast_nodes.NoOp as the tests name it (the module does not define it)
NoOp == [node |-> "NoOp"]

AssignmentTo(name, value) == Assignment(Identifier(<<name>>), Number(value))

\* the node a line stands for
LineNode(l) ==
    CASE l.form = "assignment" -> AssignmentTo("x", 1)
      [] l.form = "for" ->
            ForLoop(<<"i">>, Number(1), Identifier(<<"n">>), <<AssignmentTo("x", 1)>>)
      [] l.form \in {"inline_if", "block_if"} ->
            IfStatement(Identifier(<<"c">>), <<AssignmentTo("s", 1), AssignmentTo("r", 2)>>,
                        <<>>)
      [] l.form \in {"let", "declare"} -> NoOp
      [] l.form = "call" -> CallStatement(<<"g">>, <<Identifier(<<"x">>)>>)
      [] l.form = "array_store" ->
            Assignment(ArrayAccess(Identifier(<<"a">>), Number(1)), Number(1))
      [] OTHER -> NoValue

ExpectedBody(lines) == [k \in 1..Len(lines) |-> LineNode(lines[k])]

\* the statements parsed from the lines of the unit: the body of the main
\* block or of the first procedure
ParsedLines ==
    IF parser_locals = NoValue THEN NoValue
    ELSE IF unit.layout \in {"main", "main_procedure"} THEN parser_locals.body
    ELSE IF parser_locals.procedures = <<>> THEN NoValue
    ELSE parser_locals.procedures[1].body

\* lines the grammar of parser.py accepts in any block
Canonical(l) == l.form \in {"assignment", "for", "block_if", "call"} /\ l.lexeme = "arrow"

AllLines(u, P(_)) == \A k \in 1..Len(u.lines) : P(u.lines[k])

SomeLine(u, P(_)) == \E k \in 1..Len(u.lines) : P(u.lines[k])

IsAssignmentOrFor(l) == l.form \in {"assignment", "for"}

IsInlineIf(l) == l.form = "inline_if"

IsUnrecognized(l) == l.form \in {"let", "declare"}

CanonicalOrInlineIf(l) == Canonical(l) \/ IsInlineIf(l)

CanonicalOrUnrecognized(l) == Canonical(l) \/ IsUnrecognized(l)

\* C17: whichever of the four assignment lexemes is written, in an
\* assignment statement or in a for header, parse reaches its return
\* statement with the same Assignment (x, 1) or ForLoop (i from 1 to n)
\* node for the line; the source has a main block.
C17_AssignmentLexemesInterchangeable ==
    (/\ parserpc = "left"
     /\ unit.layout # "procedures"
     /\ AllLines(unit, IsAssignmentOrFor))
    => (parser_locals # NoValue /\ ParsedLines = ExpectedBody(unit.lines))

\* C18: an if whose then-branch is written inline and closed by end parses
\* to an IfStatement holding exactly the inline statements, and the block
\* around it goes on after that end: every line of the block is parsed
\* into the block, in order.
C18_InlineThenClosedByEnd ==
    (/\ parserpc = "left"
     /\ unit.layout # "procedures"
     /\ AllLines(unit, CanonicalOrInlineIf)
     /\ SomeLine(unit, IsInlineIf))
    => (parser_locals # NoValue /\ ParsedLines = ExpectedBody(unit.lines))

\* C19: a source made of procedure definitions only parses successfully:
\* parse returns, the body is empty and the procedures are P and Q in
\* source order under their lower-cased names.
C19_ProceduresOnlyParses ==
    (/\ parserpc = "left"
     /\ unit.layout = "procedures"
     /\ AllLines(unit, Canonical))
    => /\ parser_raised = ""
       /\ parser_locals # NoValue
       /\ parser_locals.body = <<>>
       /\ parser_locals.procedures =
              <<Procedure(<<"p">>, ExpectedBody(unit.lines)), Procedure(<<"q">>, <<>>)>>

\* C20: a line that starts with let or declare never makes the parser
\* raise: parse reaches its return statement, one NoOp stands for the line
\* in the enclosing body and the lines after it are parsed as usual.
C20_UnrecognizedLeadingWordIsNoOp ==
    (/\ parserpc = "left"
     /\ unit.layout # "procedures"
     /\ AllLines(unit, CanonicalOrUnrecognized)
     /\ SomeLine(unit, IsUnrecognized))
    => (/\ parser_raised \notin {"ParserError", "AttributeError"}
        /\ parser_locals # NoValue
        /\ ParsedLines = ExpectedBody(unit.lines))


\* C29: combine_sequence is commutative and associative over all measures,
\* those with an exponential factor included: a.combine_sequence(b) equals
\* b.combine_sequence(a) field by field, and combining with a third value
\* gives the same result in either grouping.
Uniform(measure) == CaseComplexity(measure, measure, measure)

C29_CombineSequenceCommutativeAssociative ==
    returned.method = "combine_sequence" =>
        LET a == returned.value.self
            b == returned.value.other
        IN  /\ returned.value.value = combine_sequence(b, a)
            /\ \A measure \in Measures :
                   combine_sequence(returned.value.value, Uniform(measure))
                       = combine_sequence(a, combine_sequence(b, Uniform(measure)))

\* what does hold: without an exponential factor the order of the operands
\* does not matter, and the grouping never matters
C29_CommutativeWithoutExponential ==
    returned.method = "combine_sequence" =>
        LET a == returned.value.self
            b == returned.value.other
        IN  /\ (receiver.exponential_base = 0 \/ argument.exponential_base = 0
                    \/ receiver.exponential_base # argument.exponential_base
                    \/ receiver = argument)
                => returned.value.value.best = combine_sequence(b, a).best
            /\ \A measure \in Measures :
                   combine_sequence(returned.value.value, Uniform(measure))
                       = combine_sequence(a, combine_sequence(b, Uniform(measure)))

\* a call, as a statement or inside an expression, of the procedure that
\* contains it, by its name in any case or by the name self
CallsItself(proc) ==
    _has_recursive_call(proc.body, {LowerSeq(proc.name), <<"s", "e", "l", "f">>})

NoRoutineCallsItself(prog) ==
    \A k \in 1..Len(prog.procedures) : ~CallsItself(prog.procedures[k])

\* C23: the recursive heuristic is applied only if some call targets its own
\* enclosing procedure (by name, case-insensitively, or by the name self): a
\* program whose routines only call other procedures is analysed as not
\* recursive and its result is the one of the structural fold.
C23_OnlySelfCallsAreRecursion ==
    (engpc = "done" /\ NoRoutineCallsItself(program))
    => /\ ~has_recursion
       /\ program_case = StructuralCase(program)
       /\ result = ComplexityResult(StructuralCase(program))

\* an argument of the form identifier - number literal
IsLinearArgument(expr) ==
    /\ expr.node = "BinaryOperation"
    /\ expr.operator = "-"
    /\ expr.left.node = "Identifier"
    /\ expr.right.node = "Number"

\* every call statement of proc_name in the statements passes such an argument
RECURSIVE EveryCallLinear(_, _)
EveryCallLinear(statements, proc_name) ==
    \A k \in 1..Len(statements) :
        CASE statements[k].node = "CallStatement" ->
                LowerSeq(statements[k].name) = LowerSeq(proc_name)
                => \E j \in 1..Len(statements[k].arguments) :
                      IsLinearArgument(statements[k].arguments[j])
          [] statements[k].node = "IfStatement" ->
                /\ EveryCallLinear(statements[k].then_branch, proc_name)
                /\ EveryCallLinear(statements[k].else_branch, proc_name)
          [] statements[k].node \in {"ForLoop", "WhileLoop", "RepeatUntilLoop"} ->
                EveryCallLinear(statements[k].body, proc_name)
          [] OTHER -> TRUE

\* C24: a procedure is classified hanoi only if it has exactly 2 recursive
\* calls, no loops, no partition idiom, no early return in a leading if, and
\* each of the two calls passes an argument identifier - number literal.
C24_HanoiNeedsBothCallsLinear ==
    (engpc \in {"recursion", "report", "done"} /\ recursive_pattern = "hanoi")
    => \E k \in 1..Len(program.procedures) :
          LET proc == program.procedures[k]
          IN  /\ _count_recursive_calls(proc) = 2
              /\ ~_has_loops(proc)
              /\ ~_has_partition_pattern(proc)
              /\ ~_has_early_return_in_condition(proc)
              /\ EveryCallLinear(proc.body, proc.name)

\* C25: every result of analyze, the structural fold followed by the idiom
\* override, is ordered: the worst measure dominates the average measure
\* and the average measure dominates the best measure.
C25_BestAverageWorstOrdered ==
    engpc \in {"detect", "recursion", "report", "done"}
    => /\ dominates(program_case.worst, program_case.average)
       /\ dominates(program_case.average, program_case.best)

\* an override was folded in and the three cases are not all the same
C25_Witness ==
    /\ engpc = "done"
    /\ has_recursion
    /\ recursive_pattern = "quicksort"
    /\ program_case.worst # program_case.average
    /\ ~dominates(program_case.best, program_case.worst)

\* the program is one while loop whose body steps the variable of its
\* condition by a literal, and no exit flag is detected
SteppedWhile(prog) ==
    /\ prog.procedures = <<>>
    /\ Len(prog.body) = 1
    /\ prog.body[1].node = "WhileLoop"
    /\ _extract_loop_variable(prog.body[1].condition) # <<>>
    /\ _body_progresses_variable(prog.body[1].body,
                                 _extract_loop_variable(prog.body[1].condition))
    /\ ~_has_early_exit_condition(prog.body[1])

Countdown ==
    WhileLoop(BinaryOperation(">", Identifier(Names.n), Number(0)),
              <<Step(Names.n, "-")>>)

\* C27: a while loop whose body increments or decrements its controlling
\* variable by a literal adds degree 1 to best, worst and average of its
\* body, and degree 0 only if neither side of the condition depends on
\* input; the countdown `while n > 0 do n := n - 1` is Theta(n).
C27_SteppedWhileIsLinear ==
    (engpc = "done" /\ SteppedWhile(program))
    => LET loop == program.body[1]
           body_case == _analyze_block(loop.body)
           degree == IF \/ _expression_depends_on_input(loop.condition.left, {})
                        \/ _expression_depends_on_input(loop.condition.right, {})
                     THEN 1 ELSE 0
       IN  /\ program_case = CaseComplexity(add_degree(body_case.best, degree),
                                            add_degree(body_case.worst, degree),
                                            add_degree(body_case.average, degree))
           /\ loop = Countdown => result.average_case = THETA \o "(n)"

\* the tokens the constructor stored end with the EOF token
EndsInEOF(toks) == toks # <<>> /\ toks[Len(toks)].kind = "EOF"

\* from every index of the tokens _current returns one of them and _advance
\* gives an index of the tokens again, never one before the index it had
CursorStaysInTokens(toks) ==
    \A i \in 0..(Len(toks) - 1) :
        /\ _current(toks, i) = toks[i + 1]
        /\ _advance(toks, i) \in i..(Len(toks) - 1)
        /\ _current(toks, i).kind = "EOF" => _advance(toks, i) = i

\* parse got to its return statement: _index is on the EOF token, which is
\* the last one
AllTokensConsumed(toks, end) ==
    /\ end = Len(toks) - 1
    /\ _current(toks, end).kind = "EOF"

ListLeavesDepths(v, statements, current_func_name) ==
    /\ Walked(v, <<ListItem(statements)>>, current_func_name).loop_depth = v.loop_depth
    /\ Walked(v, <<ListItem(statements)>>, current_func_name).log_depth = v.log_depth

\* the bodies of a run of consecutive loops are all walked one level deeper
\* than the run: the run adds one level, however many loops it has
RunAddsOneLevel(v, loops, current_func_name) ==
    Walked(v, <<ListItem(loops)>>, current_func_name).max_loop_depth =
        Max({v.max_loop_depth, v.loop_depth + 1} \cup
            {Walked(EnterLoop(v), <<ListItem(loops[k].body)>>,
                    current_func_name).max_loop_depth : k \in 1..Len(loops)})

DepthsDuringWalk ==
    /\ visitor.loop_depth >= 0
    /\ visitor.log_depth >= 0
    /\ (extpc = "walk" /\ stack = <<>>) =>
           visitor.loop_depth = 0 /\ visitor.log_depth = 0
    /\ (extpc = "walk" /\ stack # <<>> /\ Head(stack).op = "list") =>
           /\ ListLeavesDepths(visitor, Head(stack).statements, func_name)
           /\ LoopRun(Head(stack).statements) > 1 =>
                  RunAddsOneLevel(visitor,
                      SubSeq(Head(stack).statements, 1, LoopRun(Head(stack).statements)),
                      func_name)

\* a step of the walk keeps each maximum at the greatest depth reached so far
MaximaFollowDepths ==
    /\ visitor'.max_loop_depth = Max({visitor.max_loop_depth, visitor'.loop_depth})
    /\ visitor'.max_log_depth = Max({visitor.max_log_depth, visitor'.log_depth})
    /\ Visiting({"sequential_loops"}) => visitor'.loop_depth = visitor.loop_depth + 1

\* C30: while GenericASTVisitor walks, loop_depth and log_depth are never
\* negative, they are back at their entry values after every statement list
\* (0 when the walk is over), max_loop_depth and max_log_depth never decrease
\* and are the greatest depths reached, and a run of consecutive loops raises
\* loop_depth by exactly one for the whole run.
C30_DepthsBalancedAndMaximaTracked ==
    [](DepthsDuringWalk) /\ [][MaximaFollowDepths]_vars

\* a program whose body is a run of two loops has been walked: the run
\* counted as one level
C30_Witness ==
    /\ extpc = "structure"
    /\ ast_root.procedures = <<>>
    /\ LoopRun(ast_root.body) = 2
    /\ visitor.max_loop_depth = 1
    /\ visitor.loop_depth = 0
    /\ visitor.log_depth = 0

\* the call statements of the enclosing procedure's name, or of self, in the
\* statements and in the bodies and branches inside them
RECURSIVE SelfCalls(_, _)
SelfCalls(statements, current_func_name) ==
    IF statements = <<>> THEN 0
    ELSE (CASE Head(statements).node = "CallStatement" ->
                  IF Head(statements).name \in {current_func_name, SELF} THEN 1 ELSE 0
            [] Head(statements).node = "IfStatement" ->
                  SelfCalls(Head(statements).then_branch, current_func_name) +
                  SelfCalls(Head(statements).else_branch, current_func_name)
            [] Head(statements).node \in LoopNodes ->
                  SelfCalls(Head(statements).body, current_func_name)
            [] OTHER -> 0)
         + SelfCalls(Tail(statements), current_func_name)

\* the statements the visitor was sent through
MainStatements ==
    IF ast_root.procedures # <<>> THEN main_proc(ast_root).body ELSE ast_root.body

\* f(n), the growth of the measured depths
LocalCost == _format_growth(visitor.max_loop_depth, visitor.max_log_depth)

\* the recurrence as first built is in relation.recurrence
RecurrenceBuilt == extpc = "adjust"

\* C21 (as claimed): a = 0 gives T(n) = f(n); a >= 2 gives a*T(n/2) + f(n)
\* whatever the arguments of the calls; a = 1 gives T(n/2) + f(n) when the
\* reduction type is divide or the local cost is constant, else T(n-1) + f(n).
C21_RecurrenceByCallCount ==
    RecurrenceBuilt =>
        CASE visitor.recursive_calls = 0 ->
                recurrence_str = <<"T", "(", "n", ")", " ", "=", " ">> \o LocalCost
          [] visitor.recursive_calls >= 2 ->
                recurrence_str =
                    RecursiveRecurrence(visitor.recursive_calls, 2,
                                        WorkTerm(ast_root, visitor))
          [] OTHER ->
                recurrence_str =
                    RecursiveRecurrence(1,
                        IF visitor.recursion_type = "divide" \/ LocalCost = <<"1">>
                        THEN 2 ELSE 1,
                        WorkTerm(ast_root, visitor))

\* the work term of a recursive procedure: its loops' growth, else n for two
\* or more calls and 1 for one
LocalWork == IF LocalCost # <<"1">> THEN LocalCost
             ELSE IF visitor.recursive_calls >= 2 THEN <<"n">> ELSE <<"1">>

Halving ==
    \/ visitor.recursion_type = "divide"
    \/ visitor.recursion_type = "unknown" /\ visitor.recursive_calls >= 2

\* C21 (amended): a is the number of calls of the main procedure's own name
\* or of self.  a = 0 gives T(n) = f(n), followed by " x f_subrutina(n)" when
\* calls were met inside loops.  a >= 1 gives T(n) = a*T(n/2) + w when the
\* reduction type is divide, or is unknown with a >= 2, and T(n) = a*T(n-1) + w
\* when it is linear, or is unknown with a = 1, for every a; w is f(n) when
\* the procedure has loops, else n for a >= 2 and 1 for a = 1.
C21_RecurrenceByCallsAndReduction ==
    RecurrenceBuilt =>
        /\ visitor.recursive_calls = SelfCalls(MainStatements, func_name)
        /\ visitor.recursive_calls = 0 =>
               recurrence_str =
                   <<"T", "(", "n", ")", " ", "=", " ">> \o LocalCost \o
                   (IF visitor.calls_in_loops # {} THEN <<" ", "U+00D7", " ", "f", "_", "s", "u", "b", "r", "u", "t", "i", "n", "a", "(", "n", ")">> ELSE <<>>)
        /\ (visitor.recursive_calls >= 1 /\ Halving) =>
               recurrence_str =
                   <<"T", "(", "n", ")", " ", "=", " ">> \o ToDigits(visitor.recursive_calls) \o <<"*", "T", "(", "n", "/", "2", ")", " ", "+", " ">> \o LocalWork
        /\ (visitor.recursive_calls >= 1 /\ ~Halving) =>
               recurrence_str =
                   <<"T", "(", "n", ")", " ", "=", " ">> \o ToDigits(visitor.recursive_calls) \o <<"*", "T", "(", "n", "-", "1", ")", " ", "+", " ">> \o LocalWork

\* two calls with a linear reduction: T(n) = 2*T(n-1) + n
C21_Witness ==
    /\ RecurrenceBuilt
    /\ visitor.recursive_calls = 2
    /\ visitor.recursion_type = "linear"
    /\ recurrence_str = <<"T", "(", "n", ")", " ", "=", " ", "2", "*", "T", "(", "n", "-", "1", ")", " ", "+", " ", "n">>

\* the measures whose notation the extractor can return
NotatedMeasures ==
    {ComplexityMeasure(degree, log_power, exponential_base) :
        degree \in 0..(2 * MaxLoopDepth + 3), log_power \in 0..(MaxLoopDepth + 3),
        exponential_base \in {0, 2}}

\* the measure a notation stands for
MeasureOf(text, prefix) ==
    CHOOSE measure \in NotatedMeasures : NotationChars(measure, prefix) = text

\* self is strictly above other
StrictlyDominates(self, other) == dominates(self, other) /\ ~dominates(other, self)

\* C26: the worst case and the average case extract_generic_recurrence
\* returns are never below the ones ComplexityEngine.analyze computed for the
\* same program, and a case the adjustment for calls inside loops has
\* changed is strictly above the engine's.
C26_AdjustmentNeverLowersCases ==
    extpc = "done" =>
        /\ dominates(MeasureOf(structural.worst_case, "O"),
                     AnalyzedCase(ast_root).worst)
        /\ dominates(MeasureOf(structural.average_case, THETA),
                     AnalyzedCase(ast_root).average)
        /\ structural.worst_case # analyze(ast_root).worst_case =>
               StrictlyDominates(MeasureOf(structural.worst_case, "O"),
                                 AnalyzedCase(ast_root).worst)
        /\ structural.average_case # analyze(ast_root).average_case =>
               StrictlyDominates(MeasureOf(structural.average_case, THETA),
                                 AnalyzedCase(ast_root).average)
        /\ Join(analyze(ast_root).average_case)
               = to_notation(AnalyzedCase(ast_root).average, THETA)
        /\ Join(analyze(ast_root).worst_case)
               = to_notation(AnalyzedCase(ast_root).worst, "O")

\* the adjustment has overwritten the cases of a program the engine rated
\* n log n on average and n^2 in the worst case
C26_Witness ==
    /\ extpc = "done"
    /\ Adjusts(visitor, func_name, analyze(ast_root))
    /\ AnalyzedCase(ast_root).average = ComplexityMeasure(1, 1, 0)
    /\ AnalyzedCase(ast_root).worst = ComplexityMeasure(2, 0, 0)
    /\ structural.worst_case # analyze(ast_root).worst_case
    /\ structural.average_case # analyze(ast_root).average_case

\* an exponential average of the engine is met by a call inside a loop
ExponentialCalledInLoop ==
    /\ extpc = "done"
    /\ StructFound(visitor, func_name)
    /\ AnalyzedCase(ast_root).average.exponential_base > 0

\* a^j times f, as _calculate_node_cost writes it
LevelTotal(a, j, fn) == ToDigits(a ^ j) \o <<" ", "*", " ">> \o fn

\* T(n) at the root, T(n/b^j) below it
LabelAt(b, j) ==
    IF j = 0 THEN <<"T", "(", "n", ")">>
    ELSE <<"T", "(", "n", "/">> \o ToDigits(b ^ j) \o <<")">>

\* the nodes at depth j are a^j nodes labelled T(n/b^j), inner nodes with a
\* children and leaves at depth max_depth
LevelComplete(nodes, a, b, j) ==
    /\ Len(nodes) = a ^ j
    /\ \A k \in 1..Len(nodes) :
          /\ nodes[k].label = LabelAt(b, j)
          /\ Len(nodes[k].children) = IF j < max_depth THEN a ELSE 0

AllLevelsComplete(nodes, a, b) ==
    /\ \A k \in 1..Len(nodes) : nodes[k].level \in 0..max_depth
    /\ \A j \in 0..max_depth :
          LevelComplete(SelectSeq(nodes, LAMBDA node : node.level = j), a, b, j)

\* the tree is the complete a-ary tree of height max_depth with the labels
\* T(n/b^j), and levels lists its depths in order with all their nodes
CompleteTree(a, b) ==
    /\ height = max_depth
    /\ Len(levels) = max_depth + 1
    /\ \A j \in 0..max_depth :
          /\ levels[j + 1].level = j
          /\ levels[j + 1].nodes = [k \in 1..(a ^ j) |-> LabelAt(b, j)]
    /\ AllLevelsComplete(Traverse(root), a, b)

\* C22 (as claimed): for parsed (a, b, f) with a >= 1 and b >= 2 the tree is
\* the complete a-ary tree of height 5, every node at depth j is labelled
\* T(n/b^j), and the level total recorded for every depth j in 0..5 is a^j * f.
C22_CompleteTreeWithLevelTotals ==
    (treepc = "built" /\ tree_params.a >= 1 /\ tree_params.b >= 2) =>
        /\ CompleteTree(tree_params.a, tree_params.b)
        /\ \A j \in 0..max_depth :
               levels[j + 1].total_cost = LevelTotal(tree_params.a, j, tree_params.fn)

\* C22 (amended): the tree is the complete a-ary tree of height 5 with the
\* labels T(n/b^j); the level total recorded is a^j * f, with cost f, for the
\* depths 0..4, and the leaves at depth 5 are the base case: their level
\* records cost O(1) and total O(1).
C22_CompleteTreeWithConstantLeaves ==
    (treepc = "built" /\ tree_params.a >= 1 /\ tree_params.b >= 2) =>
        /\ CompleteTree(tree_params.a, tree_params.b)
        /\ \A j \in 0..(max_depth - 1) :
               /\ levels[j + 1].total_cost = LevelTotal(tree_params.a, j, tree_params.fn)
               /\ levels[j + 1].cost = tree_params.fn
        /\ levels[max_depth + 1].total_cost = <<"O", "(", "1", ")">>
        /\ levels[max_depth + 1].cost = <<"O", "(", "1", ")">>

\* the tree of T(n) = 2*T(n/2) + n is built: 32 leaves T(n/32)
C22_Witness ==
    /\ treepc = "built"
    /\ tree_params = [tag |-> "ok", a |-> 2, b |-> 2, fn |-> <<"n">>]
    /\ Len(levels[max_depth + 1].nodes) = 32
    /\ levels[max_depth + 1].nodes[1] = <<"T", "(", "n", "/", "3", "2", ")">>

=========================================================================
